---- MODULE Spec2Model ----
(***************************************************************************)
(* A model of talaria's activity synchronisation pipeline                  *)
(* (backend/app/api/activities.py, backend/app/services/strava_api.py),    *)
(* of its login callback (api/auth.py), of its settings endpoints          *)
(* (api/settings.py, models/user_settings.py) and of the zone and pace     *)
(* helpers (services/zone_calculator.py).                                  *)
(*                                                                         *)
(* The database is a committed athlete table and a committed activity      *)
(* table; every request handler owns a session whose writes stay pending   *)
(* until its commit.  The remote platform keeps, per account, the current  *)
(* credential triple and a set of activities.  Handlers interleave at      *)
(* their awaits and at their database statements.                          *)
(*                                                                         *)
(* Times are epoch seconds and datetime values are whole seconds.  An      *)
(* aware datetime is the instant it denotes; a naive datetime (what a      *)
(* DateTime column gives back) is the instant its wall-clock reading       *)
(* denotes in UTC.  datetime.timestamp() reads a naive value as local      *)
(* time: utc_offset is how far the server's local time is ahead of UTC.    *)
(***************************************************************************)
EXTENDS Integers, Sequences, FiniteSets, Bags, TLC

\* ------------------------------------------------------------------ bounds
MaxTicks == 1
MaxRuns == 2

\* The largest max_retries a caller of retry_with_backoff passes.
MaxAttempts == 3

\* ------------------------------------------------------- program constants
THIRTY_DAYS == 30 * 24 * 60 * 60
\* The instant the model starts at, and the lifetime the remote gives a token.
Now0 == 17 * 100000000
TOKEN_LIFETIME == 6 * 60 * 60
SYNC_PER_PAGE == 100
\* retry_with_backoff: the wait after a 429, and the arguments callers pass
\* (the defaults among them).
RATE_LIMIT_COOLDOWN == 60
InitialDelayChoices == {1, 2}
BackoffFactorChoices == {2, 3}
STRAVA_MAX_PER_PAGE == 200

Procs == {1, 2}
AthleteIds == {1, 2}
RequestedAthleteIds == {1, 2, 3}
RemoteIds == {101, 102, 103}
\* Internal activity ids a streams request may name: a row there may be,
\* of either athlete, or none.
ActivityIdChoices == 1..2
Missing == "missing"
Null == "null"
\* Offsets of the server's local time from UTC: none, two hours east, five
\* hours west.
UtcOffsets == {0, 2 * 3600, 0 - 5 * 3600}
\* A history one item longer than the page sync_activities asks for.
BacklogIds == 1001..(1001 + SYNC_PER_PAGE)
NoRow == [id |-> 0]

\* req is the bag of the handlers in flight (their locals and sessions),
\* response the last response sent.
\* backlog tells whether the second remote account holds its long history,
\* newest_first the order the remote lists activities in, utc_offset the
\* offset of the server's local time from UTC.
\* user_settings is the committed settings table, settings_seq the last
\* value its id sequence gave out.
VARIABLES athletes, activities, remoteAuth, nextTok, remoteActs, now,
          req, response, runs, persisted, issued, backlog, newest_first,
          utc_offset, user_settings, settings_seq

vars == <<athletes, activities, remoteAuth, nextTok, remoteActs, now,
          req, response, runs, persisted, issued, backlog, newest_first, utc_offset, user_settings, settings_seq>>

\* ------------------------------------------------------------ the remote
\* The remote account an activity belongs to (accounts and local athletes
\* are 1:1, Athlete.strava_id is unique).
Owner(rid) == IF rid = 103 \/ rid \in BacklogIds THEN 2 ELSE 1

StartOf(rid) ==
    CASE rid = 101 -> Now0 - THIRTY_DAYS + 1
      [] rid = 102 -> Now0 - 10
      [] rid = 103 -> Now0 - 5
      [] OTHER     -> Now0 - 2 * rid

\* Whether the remote holds the activity.
Present(rid) ==
    IF rid \in BacklogIds THEN backlog ELSE remoteActs[rid] # "absent"

StateOf(rid) ==
    IF rid \in BacklogIds THEN "v0" ELSE remoteActs[rid]

\* The JSON payload the remote serves for an activity in a given state.  An
\* optional key is a set: empty when the key is absent.  A required key can
\* be absent ("bad") or hold a JSON null ("null").
Payload(rid, st) ==
    [id         |-> rid,
     name       |-> CASE st = "bad"  -> Missing
                      [] st = "null" -> Null
                      [] st = "v0"   -> "Morning Run"
                      [] OTHER       -> "Renamed",
     distance   |-> IF st = "v0" THEN {} ELSE {5000},
     start_date |-> StartOf(rid)]

\* The states the model lets each remote activity take.
RemoteStates(rid) ==
    CASE rid = 101 -> {"v0", "bad", "null"}
      [] rid = 102 -> {"v0", "v1"}
      [] OTHER     -> {"v0"}

Min(x, y) == IF x < y THEN x ELSE y

\* The activities of S, oldest first.
RECURSIVE SortedSeq(_)
SortedSeq(S) ==
    IF S = {} THEN <<>>
    ELSE LET m == CHOOSE x \in S : \A y \in S : StartOf(x) <= StartOf(y)
         IN <<m>> \o SortedSeq(S \ {m})

Reverse(q) == [i \in 1..Len(q) |-> q[Len(q) + 1 - i]]

\* Mutant of get_athlete_activities: every match is returned, whatever
\* per_page says.
get_athlete_activitiesUnpaged(a, after, per_page) ==
    LET match == {rid \in RemoteIds \cup BacklogIds :
                     /\ Owner(rid) = a
                     /\ Present(rid)
                     /\ (after # 0 => StartOf(rid) > after)}
        ids   == IF newest_first THEN Reverse(SortedSeq(match))
                 ELSE SortedSeq(match)
    IN [i \in 1..Len(ids) |-> Payload(ids[i], StateOf(ids[i]))]

\* GET /athlete/activities answered 200: the activities of the token's
\* account, filtered by 'after' when the parameter was sent, one page.
get_athlete_activities(a, after, per_page) ==
    LET sent  == Min(per_page, STRAVA_MAX_PER_PAGE)
        match == {rid \in RemoteIds \cup BacklogIds :
                     /\ Owner(rid) = a
                     /\ Present(rid)
                     /\ (after # 0 => StartOf(rid) > after)}
        ids   == IF newest_first THEN Reverse(SortedSeq(match))
                 ELSE SortedSeq(match)
        page  == IF Len(ids) <= sent THEN ids ELSE SubSeq(ids, 1, sent)
    IN [i \in 1..Len(page) |-> Payload(page[i], StateOf(page[i]))]

\* The account a bearer token is the current one of at the remote, 0 when
\* none.
TokenAccount(tok) ==
    IF \E a \in AthleteIds : remoteAuth[a].access_token = tok
    THEN CHOOSE a \in AthleteIds : remoteAuth[a].access_token = tok
    ELSE 0

\* The remote accepts a current token before its expiry and answers 401 to
\* any other; in the very second of the expiry it may do either.
TokenAccepted(tok) ==
    IF TokenAccount(tok) = 0 THEN FALSE
    ELSE now <= remoteAuth[TokenAccount(tok)].expires_at

TokenRejected(tok) ==
    IF TokenAccount(tok) = 0 THEN TRUE
    ELSE now >= remoteAuth[TokenAccount(tok)].expires_at

\* ------------------------------------------------------- the transformer
TransformFails(strava_data) ==
    strava_data.name = Missing

transform_strava_activity(strava_data, athlete_id) ==
    [strava_id  |-> strava_data.id,
     athlete_id |-> athlete_id,
     name       |-> strava_data.name,
     distance   |-> IF strava_data.distance = {} THEN 0
                    ELSE CHOOSE d \in strava_data.distance : TRUE,
     start_date |-> strava_data.start_date]

\* ---------------------------------------------------------- the database
Rows(tbl) == {tbl[i] : i \in 1..Len(tbl)}

\* select(Activity).where(athlete_id == a).order_by(start_date.desc()).first()
LatestActivity(a) ==
    LET mine == {r \in Rows(activities) : r.athlete_id = a}
    IN IF mine = {} THEN NoRow
       ELSE CHOOSE r \in mine : \A s \in mine : s.start_date <= r.start_date

\* Mutant of FindExisting: the lookup filters on the athlete, not on the
\* remote identity.
FindExistingByAthlete(h, sid) ==
    LET hit == {r \in Rows(activities) : r.athlete_id = h.athlete_id}
    IN IF hit # {} THEN CHOOSE r \in hit : \A o \in hit : r.id <= o.id
       ELSE NoRow

\* select(Activity).where(strava_id == sid).first(), in the session's view:
\* the committed rows, then the session's own flushed inserts.
FindExisting(h, sid) ==
    LET hit == {r \in Rows(activities) : r.strava_id = sid}
        own == {i \in 1..Len(h.pending) : h.pending[i].row.strava_id = sid}
    IN IF hit # {} THEN CHOOSE r \in hit : TRUE
       ELSE IF own # {} THEN h.pending[CHOOSE i \in own : TRUE].row
       ELSE NoRow

\* Mutant of UpdateExisting: updated_at is left as it was.
UpdateExistingKeepsStamp(existing, activity_data, t) ==
    [id         |-> existing.id,
     created_at |-> existing.created_at,
     strava_id  |-> activity_data.strava_id,
     athlete_id |-> activity_data.athlete_id,
     name       |-> activity_data.name,
     distance   |-> activity_data.distance,
     start_date |-> activity_data.start_date,
     updated_at |-> existing.updated_at]

\* The loop body's update branch: every key of activity_data is written,
\* id and created_at are not among them; updated_at is set.
UpdateExisting(existing, activity_data, t) ==
    [id         |-> existing.id,
     created_at |-> existing.created_at,
     strava_id  |-> activity_data.strava_id,
     athlete_id |-> activity_data.athlete_id,
     name       |-> activity_data.name,
     distance   |-> activity_data.distance,
     start_date |-> activity_data.start_date,
     updated_at |-> t]

\* Activity(**activity_data): id unset until the insert, both audit stamps
\* from their default factory.
NewActivity(activity_data, t) ==
    [id         |-> 0,
     created_at |-> t,
     strava_id  |-> activity_data.strava_id,
     athlete_id |-> activity_data.athlete_id,
     name       |-> activity_data.name,
     distance   |-> activity_data.distance,
     start_date |-> activity_data.start_date,
     updated_at |-> t]

\* Mutant of ApplyOne: an insert takes the place of the table's last row.
ApplyOneOverLast(tbl, w) ==
    IF w.op = "ins"
    THEN IF tbl = <<>> THEN <<[w.row EXCEPT !.id = 1]>>
         ELSE [tbl EXCEPT ![Len(tbl)] = [w.row EXCEPT !.id = Len(tbl)]]
    ELSE [i \in 1..Len(tbl) |-> IF tbl[i].id = w.row.id THEN w.row ELSE tbl[i]]

\* One pending write applied to the table.
ApplyOne(tbl, w) ==
    IF w.op = "ins"
    THEN Append(tbl, [w.row EXCEPT !.id = Len(tbl) + 1])
    ELSE [i \in 1..Len(tbl) |-> IF tbl[i].id = w.row.id THEN w.row ELSE tbl[i]]

RECURSIVE ApplyAll(_, _)
ApplyAll(tbl, ws) ==
    IF ws = <<>> THEN tbl
    ELSE ApplyAll(ApplyOne(tbl, Head(ws)), Tail(ws))

\* Mutant of UniqueStravaId: the column carries no unique constraint.
UniqueStravaIdUnenforced(tbl) ==
    TRUE

\* Column(BigInteger, unique=True) on Activity.strava_id.
UniqueStravaId(tbl) ==
    \A i, j \in 1..Len(tbl) : tbl[i].strava_id = tbl[j].strava_id => i = j

\* --------------------------------------------------------------- handlers
\* A handler's locals before its first statement.
Idle ==
    [pc |-> "idle", kind |-> "none", athlete_id |-> 0, athlete |-> NoRow,
     expiry_was |-> "unread", token_data |-> NoRow,
     after_timestamp |-> 0, activities_data |-> <<>>, idx |-> 0,
     new_count |-> 0, updated_count |-> 0, pending |-> <<>>,
     status |-> 0, refresh_calls |-> 0, list_calls |-> 0,
     stream_calls |-> 0, activity_strava_id |-> 0,
     refresh_result |-> "none", stale_sent |-> FALSE,
     fetched |-> 0, skipped |-> 0, session_ok |-> TRUE,
     duplicate |-> FALSE, fetch_result |-> "none"]

\* The handler returns or raises: the response carries the status and the
\* counts (with the bookkeeping the properties read); the session and the
\* locals are gone.
Response(h, code) ==
    [kind |-> h.kind, status |-> code,
     new_count |-> h.new_count, updated_count |-> h.updated_count,
     total |-> h.new_count + h.updated_count,
     skipped |-> h.skipped, fetched |-> h.fetched,
     refresh_result |-> h.refresh_result, stale_sent |-> h.stale_sent,
     refresh_calls |-> h.refresh_calls, list_calls |-> h.list_calls,
     stream_calls |-> h.stream_calls, fetch_result |-> h.fetch_result]

InFlight == BagToSet(req)

\* A request is taken up while a worker is free.
Accept(h) ==
    /\ BagCardinality(req) < Cardinality(Procs)
    /\ runs < MaxRuns
    /\ runs' = runs + 1
    /\ req' = req (+) SetToBag({h})
    /\ response' = response

\* A request is taken up and answered before its first await.
Refuse(h, code) ==
    /\ BagCardinality(req) < Cardinality(Procs)
    /\ runs < MaxRuns
    /\ runs' = runs + 1
    /\ req' = req
    /\ response' = Response(h, code)

\* Handler h goes on with locals h2.
Continue(h, h2) ==
    /\ req' = (req (-) SetToBag({h})) (+) SetToBag({h2})
    /\ response' = response

\* Handler h ends with locals h2 and the given status.
Finish(h, h2, code) ==
    /\ req' = req (-) SetToBag({h})
    /\ response' = Response(h2, code)

\* Mutant of NeedsRefresh: the token is refreshed on every request.
NeedsRefreshAlways(expires_at, current_time) ==
    TRUE

\* Step 2's test: the stored expiry against the handler's current_time.
NeedsRefresh(expires_at, current_time) ==
    expires_at < current_time

\* Where a stored expiry lies relative to an instant (bookkeeping).
ExpiryWas(expires_at, t) ==
    IF expires_at < t THEN "past"
    ELSE IF expires_at = t THEN "now" ELSE "future"

\* sync_activities, steps 1 and 2 up to the refresh call.
SyncStart(a) ==
    /\ IF a \notin AthleteIds
       THEN Refuse([Idle EXCEPT !.kind = "sync", !.athlete_id = a], 404)
       ELSE Accept([Idle EXCEPT
                       !.pc = IF NeedsRefresh(athletes[a].expires_at, now)
                              THEN "refresh" ELSE "horizon",
                       !.kind = "sync",
                       !.athlete_id = a,
                       !.athlete = athletes[a],
                       !.expiry_was = ExpiryWas(athletes[a].expires_at, now)])
    /\ UNCHANGED <<athletes, activities, remoteAuth, nextTok, remoteActs, now,
                   persisted, issued, backlog,
                   newest_first, utc_offset, user_settings, settings_seq>>

\* strava_api.refresh_access_token answered 200.
RefreshGranted(h) ==
    LET a  == h.athlete_id
        td == [access_token |-> nextTok, refresh_token |-> nextTok,
               expires_at |-> now + TOKEN_LIFETIME]
    IN /\ h.athlete.refresh_token = remoteAuth[a].refresh_token
       /\ remoteAuth' = [remoteAuth EXCEPT ![a] = td]
       /\ nextTok' = nextTok + 1
       /\ issued' = issued \cup {td}
       /\ Continue(h, [h EXCEPT !.pc = "refresh_commit",
                                !.token_data = td,
                                !.refresh_result = "granted",
                                !.refresh_calls = @ + 1])

\* Mutant of RefreshRejected: the failure is swallowed and the handler goes
\* on with the stale token.
RefreshRejectedSwallowed(h) ==
    /\ Continue(h, [h EXCEPT !.pc = IF h.kind = "sync" THEN "horizon"
                                    ELSE "streams",
                             !.refresh_calls = @ + 1,
                             !.refresh_result = "rejected"])
    /\ UNCHANGED <<remoteAuth, nextTok, issued>>

\* Answered non-200: HTTPException(400), caught and re-raised as 401.
RefreshRejected(h) ==
    /\ Finish(h, [h EXCEPT !.refresh_calls = @ + 1,
                           !.refresh_result = "rejected"], 401)
    /\ UNCHANGED <<remoteAuth, nextTok, issued>>

\* The request fails in transport: httpx raises, no handler catches it.
RefreshTransportError(h) ==
    /\ Finish(h, [h EXCEPT !.refresh_calls = @ + 1,
                           !.refresh_result = "transport"], 500)
    /\ UNCHANGED <<remoteAuth, nextTok, issued>>

SyncRefresh(h) ==
    /\ h.pc = "refresh"
    /\ h.kind = "sync"
    /\ \/ RefreshGranted(h)
       \/ RefreshRejected(h)
       \/ RefreshTransportError(h)
    /\ UNCHANGED <<athletes, activities, remoteActs, now, runs, persisted,
                   backlog, newest_first, utc_offset, user_settings, settings_seq>>

\* Mutant of PersistTokens: the new tokens are stored with the expiry the
\* row already had.
PersistTokensStaleExpiry(h, nextpc) ==
    LET a  == h.athlete_id
        td == [h.token_data EXCEPT !.expires_at = h.athlete.expires_at]
    IN /\ athletes' = [athletes EXCEPT ![a] = td]
       /\ persisted' = persisted \cup {td}
       /\ Continue(h, [h EXCEPT !.pc = nextpc,
                                !.athlete = td,
                                !.token_data = NoRow])

\* Mutant of PersistTokens: the new tokens are set on the handler's object
\* and left to the commit of the batch.
PersistTokensWithBatch(h, nextpc) ==
    /\ UNCHANGED <<athletes, persisted>>
    /\ Continue(h, [h EXCEPT !.pc = nextpc,
                             !.athlete = h.token_data,
                             !.token_data = NoRow])

\* The token triple written to the athlete row and committed, then
\* session.refresh(athlete).
PersistTokens(h, nextpc) ==
    LET a == h.athlete_id
    IN /\ athletes' = [athletes EXCEPT ![a] = h.token_data]
       /\ persisted' = persisted \cup {h.token_data}
       /\ Continue(h, [h EXCEPT !.pc = nextpc,
                                !.athlete = h.token_data,
                                !.token_data = NoRow])

SyncRefreshCommit(h) ==
    /\ h.pc = "refresh_commit"
    /\ h.kind = "sync"
    /\ \/ PersistTokens(h, "horizon")
       \/ /\ Finish(h, h, 500)
          /\ UNCHANGED <<athletes, persisted>>
    /\ UNCHANGED <<activities, remoteAuth, nextTok, remoteActs, now, runs,
                   issued, backlog,
                   newest_first, utc_offset, user_settings, settings_seq>>

\* datetime.timestamp() of a naive datetime: the value is taken to be local
\* time.
timestamp(naive) == naive - utc_offset

\* Step 3: the fetch horizon.
AfterTimestamp(a) ==
    IF LatestActivity(a) # NoRow
    THEN timestamp(LatestActivity(a).start_date)
    ELSE now - THIRTY_DAYS

SyncHorizon(h) ==
    /\ h.pc = "horizon"
    /\ h.kind = "sync"
    /\ Continue(h, [h EXCEPT !.pc = "fetch",
                             !.after_timestamp = AfterTimestamp(h.athlete_id)])
    /\ UNCHANGED <<athletes, activities, remoteAuth, nextTok, remoteActs, now,
                   runs, persisted, issued, backlog,
                   newest_first, utc_offset, user_settings, settings_seq>>

\* The handler's bookkeeping once a list request has been sent.
Listed(h) ==
    [h EXCEPT !.list_calls = @ + 1,
              !.stale_sent = (h.athlete.expires_at <= now)]

\* A remote activity request ends in an HTTPException that the handler logs
\* and re-raises: the response carries its status.
FetchRaises(h, sent, code) ==
    Finish(h, [sent EXCEPT !.fetch_result =
                  CASE code = 401 -> "401"
                    [] code = 429 -> "429"
                    [] OTHER      -> "error"], code)

\* The request runs into the client's timeout: httpx raises a
\* TimeoutException, which is no HTTPException; no handler catches it and
\* the framework answers 500.
FetchTimeout(h, sent) ==
    Finish(h, [sent EXCEPT !.fetch_result = "timeout"], 500)

\* Step 4: the list request and its outcomes.
SyncFetch(h) ==
    /\ h.pc = "fetch"
    /\ h.kind = "sync"
    /\ LET acct == TokenAccount(h.athlete.access_token)
           data == get_athlete_activities(acct, h.after_timestamp,
                                          SYNC_PER_PAGE)
       IN \/ /\ TokenAccepted(h.athlete.access_token)
             /\ Continue(h, [Listed(h) EXCEPT
                          !.pc = IF data = <<>> THEN "commit" ELSE "merge",
                          !.fetch_result = "ok",
                          !.activities_data = data,
                          !.idx = 1,
                          !.fetched = Len(data)])
          \/ /\ TokenRejected(h.athlete.access_token)
             /\ FetchRaises(h, Listed(h), 401)
          \/ \E code \in {429, 500} : FetchRaises(h, Listed(h), code)
          \/ FetchTimeout(h, Listed(h))
    /\ UNCHANGED <<athletes, activities, remoteAuth, nextTok, remoteActs, now,
                   runs, persisted, issued, backlog,
                   newest_first, utc_offset, user_settings, settings_seq>>

\* Step 5: one iteration of the processing loop.
NextItem(h) ==
    [h EXCEPT !.idx = @ + 1,
              !.pc = IF h.idx = Len(h.activities_data) THEN "commit" ELSE "merge"]

\* except Exception: the error is logged and the loop continues.
SkipItem(h) ==
    Continue(h, NextItem([h EXCEPT !.skipped = @ + 1]))

\* The autoflush before a select, or the flush of the commit, sends the
\* session's pending writes: a NULL in the NOT NULL column name or a
\* strava_id that is already committed makes it raise.
FlushFails(h) ==
    \/ \E k \in 1..Len(h.pending) : h.pending[k].row.name = Null
    \/ ~UniqueStravaId(ApplyAll(activities, h.pending))

\* A queued insert's strava_id has meanwhile been committed by another
\* session (bookkeeping: duplicate remembers it once the writes are gone).
DuplicateSeen(h) ==
    \/ h.duplicate
    \/ ~UniqueStravaId(ApplyAll(activities, h.pending))

\* The select raises (the flush has failed, or failed earlier and left the
\* session's transaction rolled back): caught by the same except clause,
\* the item in hand is skipped and the pending writes are gone.
FlushError(h) ==
    Continue(h, NextItem([h EXCEPT !.skipped = @ + 1,
                                   !.session_ok = FALSE,
                                   !.duplicate = DuplicateSeen(h),
                                   !.pending = <<>>]))

MergeItem(h) ==
    LET item     == h.activities_data[h.idx]
        data     == transform_strava_activity(item, h.athlete_id)
        existing == FindExisting(h, item.id)
    IN IF TransformFails(item)
       THEN SkipItem(h)
       ELSE IF ~h.session_ok \/ FlushFails(h)
       THEN FlushError(h)
       ELSE IF existing # NoRow
       THEN Continue(h, NextItem([h EXCEPT
                !.updated_count = @ + 1,
                !.pending = Append(@, [op  |-> "upd",
                                       row |-> UpdateExisting(existing, data, now)])]))
       ELSE Continue(h, NextItem([h EXCEPT
                !.new_count = @ + 1,
                !.pending = Append(@, [op  |-> "ins",
                                       row |-> NewActivity(data, now)])]))

SyncMerge(h) ==
    /\ h.pc = "merge"
    /\ MergeItem(h)
    /\ UNCHANGED <<athletes, activities, remoteAuth, nextTok, remoteActs, now,
                   runs, persisted, issued, backlog,
                   newest_first, utc_offset, user_settings, settings_seq>>

\* Mutant of CommitBatch: only the first write of the batch is committed.
CommitBatchFirstOnly(h) ==
    /\ h.session_ok
    /\ ~FlushFails(h)
    /\ activities' = IF h.pending = <<>> THEN activities
                     ELSE ApplyOne(activities, Head(h.pending))
    /\ Finish(h, h, 200)

\* session.commit() of the batch: all of it, or the rollback and a 500.
CommitBatch(h) ==
    /\ h.session_ok
    /\ ~FlushFails(h)
    /\ activities' = ApplyAll(activities, h.pending)
    /\ Finish(h, h, 200)

\* Mutant of RollbackBatch: the first write of the batch stays.
RollbackBatchPartial(h) ==
    /\ Finish(h, h, 500)
    /\ activities' = IF h.pending = <<>> THEN activities
                     ELSE ApplyOne(activities, Head(h.pending))

\* session.rollback(), then HTTPException(500).
RollbackBatch(h) ==
    /\ Finish(h, h, 500)
    /\ UNCHANGED activities

SyncCommit(h) ==
    /\ h.pc = "commit"
    /\ \/ CommitBatch(h)
       \/ RollbackBatch(h)
    /\ UNCHANGED <<athletes, remoteAuth, nextTok, remoteActs, now, runs,
                   persisted, issued, backlog, newest_first, utc_offset, user_settings, settings_seq>>

\* get_activity_streams_endpoint up to the refresh call.
StreamsStart(a, activity_id) ==
    /\ LET h == [Idle EXCEPT !.kind = "streams", !.athlete_id = a]
       IN IF a \notin AthleteIds \/ activity_id \notin 1..Len(activities)
          THEN Refuse(h, 404)
          ELSE IF activities[activity_id].athlete_id # a
          THEN Refuse(h, 403)
          ELSE Accept([h EXCEPT
                          !.pc = IF NeedsRefresh(athletes[a].expires_at, now)
                                 THEN "refresh" ELSE "streams",
                          !.athlete = athletes[a],
                          !.expiry_was = ExpiryWas(athletes[a].expires_at, now),
                          !.activity_strava_id = activities[activity_id].strava_id])
    /\ UNCHANGED <<athletes, activities, remoteAuth, nextTok, remoteActs, now,
                   persisted, issued, backlog,
                   newest_first, utc_offset, user_settings, settings_seq>>

StreamsRefresh(h) ==
    /\ h.pc = "refresh"
    /\ h.kind = "streams"
    /\ \/ RefreshGranted(h)
       \/ RefreshRejected(h)
       \/ RefreshTransportError(h)
    /\ UNCHANGED <<athletes, activities, remoteActs, now, runs, persisted,
                   backlog, newest_first, utc_offset, user_settings, settings_seq>>

StreamsRefreshCommit(h) ==
    /\ h.pc = "refresh_commit"
    /\ h.kind = "streams"
    /\ \/ PersistTokens(h, "streams")
       \/ /\ Finish(h, h, 500)
          /\ UNCHANGED <<athletes, persisted>>
    /\ UNCHANGED <<activities, remoteAuth, nextTok, remoteActs, now, runs,
                   issued, backlog,
                   newest_first, utc_offset, user_settings, settings_seq>>

\* strava_api.get_activity_streams and its outcomes; a 404 is an empty
\* result, returned as a success.
StreamsFetch(h) ==
    /\ h.pc = "streams"
    /\ LET sent == [h EXCEPT !.stream_calls = @ + 1,
                             !.stale_sent = (h.athlete.expires_at <= now)]
       IN \/ /\ TokenAccepted(h.athlete.access_token)
             /\ Finish(h, [sent EXCEPT !.fetch_result = "ok"], 200)
          \/ /\ TokenRejected(h.athlete.access_token)
             /\ FetchRaises(h, sent, 401)
          \/ \E code \in {429, 500} : FetchRaises(h, sent, code)
          \/ FetchTimeout(h, sent)
    /\ UNCHANGED <<athletes, activities, remoteAuth, nextTok, remoteActs, now,
                   runs, persisted, issued, backlog,
                   newest_first, utc_offset, user_settings, settings_seq>>

\* ------------------------------------------------------ retry_with_backoff
\* What one call of the wrapped function comes to: a result, an
\* HTTPException with its status, or another exception (a timeout of the
\* HTTP client, for one).
Returned == [exc |-> "none", status_code |-> 0]
HTTPError(code) == [exc |-> "HTTPException", status_code |-> code]
OtherError == [exc |-> "Exception", status_code |-> 0]
FuncOutcomes == {Returned, OtherError} \cup
                {HTTPError(code) : code \in {401, 403, 404, 429, 500}}

\* The state of the stores plays no part in retry_with_backoff.
stores == <<athletes, activities, remoteAuth, nextTok, remoteActs,
            persisted, issued, backlog, newest_first, utc_offset, user_settings, settings_seq>>

\* The frame of a call: its arguments, its locals, and the calls and waits
\* it has made so far.
RetryFrame(max_retries, initial_delay, backoff_factor) ==
    [kind |-> "retry", pc |-> "attempt",
     max_retries |-> max_retries, initial_delay |-> initial_delay,
     backoff_factor |-> backoff_factor,
     delay |-> initial_delay, attempt |-> 0,
     outcomes |-> <<>>, sleeps |-> <<>>]

\* The call returns or raises.
RetryEnds(h, h2, how, e) ==
    /\ req' = req (-) SetToBag({h})
    /\ response' = [kind |-> "retry", result |-> how, error |-> e,
                    max_retries |-> h2.max_retries,
                    initial_delay |-> h2.initial_delay,
                    backoff_factor |-> h2.backoff_factor,
                    outcomes |-> h2.outcomes, sleeps |-> h2.sleeps]

\* retry_with_backoff is called.  A max_retries of 0 leaves the loop with
\* no call made and no exception kept: the function returns None.
RetryStart(max_retries, initial_delay, backoff_factor) ==
    LET h == RetryFrame(max_retries, initial_delay, backoff_factor)
    IN /\ runs = 0
       /\ req = EmptyBag
       /\ runs' = 1
       /\ IF max_retries > 0
          THEN /\ req' = req (+) SetToBag({h})
               /\ response' = response
          ELSE /\ req' = req
               /\ response' = [kind |-> "retry", result |-> "returned",
                               error |-> Returned,
                               max_retries |-> max_retries,
                               initial_delay |-> initial_delay,
                               backoff_factor |-> backoff_factor,
                               outcomes |-> <<>>, sleeps |-> <<>>]
       /\ UNCHANGED <<stores, now>>

\* Mutant of PermanentFailure: only a 401 is taken as permanent.
PermanentFailureAuthOnly(e) ==
    e.status_code = 401

\* e.status_code in [401, 403, 404]
PermanentFailure(e) ==
    e.status_code \in {401, 403, 404}

\* Mutant of DelayAfter: a 429 leaves the delay where the schedule has it.
DelayAfterKeepsSchedule(e, delay) ==
    delay

\* The delay once the failure has been looked at: a 429 sets it to the
\* cooldown.
DelayAfter(e, delay) ==
    IF e.exc = "HTTPException" /\ e.status_code = 429
    THEN RATE_LIMIT_COOLDOWN
    ELSE delay

\* Mutant of NextDelay: the delay stays what it was.
NextDelayConstant(delay, backoff_factor) ==
    delay

\* delay *= backoff_factor
NextDelay(delay, backoff_factor) ==
    delay * backoff_factor

\* One pass of the loop up to its await of the sleep: func() is awaited
\* and returns, or raises and the except clauses decide.
RetryAttempt(h, e) ==
    LET tried == [h EXCEPT !.outcomes = Append(@, e)]
    IN /\ h.kind = "retry"
       /\ h.pc = "attempt"
       /\ IF e.exc = "none"
          THEN RetryEnds(h, tried, "returned", e)
          ELSE IF e.exc = "HTTPException" /\ PermanentFailure(e)
          THEN RetryEnds(h, tried, "raised", e)
          ELSE IF h.attempt < h.max_retries - 1
          THEN /\ req' = (req (-) SetToBag({h})) (+)
                         SetToBag({[tried EXCEPT
                                      !.pc = "sleep",
                                      !.delay = DelayAfter(e, h.delay)]})
               /\ response' = response
          ELSE RetryEnds(h, tried, "raised", e)
       /\ UNCHANGED <<stores, now, runs>>

\* asyncio.sleep(delay) is over: the delay is multiplied and the loop goes
\* to its next pass.
RetrySleep(h) ==
    /\ h.kind = "retry"
    /\ h.pc = "sleep"
    /\ now' = now + h.delay
    /\ req' = (req (-) SetToBag({h})) (+)
              SetToBag({[h EXCEPT !.pc = "attempt",
                                  !.sleeps = Append(@, h.delay),
                                  !.delay = NextDelay(h.delay, h.backoff_factor),
                                  !.attempt = @ + 1]})
    /\ response' = response
    /\ UNCHANGED <<stores, runs>>

\* ------------------------------------------------------------ environment
Tick ==
    /\ now < Now0 + MaxTicks
    /\ now' = now + 1
    /\ UNCHANGED <<athletes, activities, remoteAuth, nextTok, remoteActs, req,
                   response, runs, persisted, issued, backlog,
                   newest_first, utc_offset, user_settings, settings_seq>>

\* An activity is uploaded to the remote account.
RemoteCreate(rid, st) ==
    /\ remoteActs[rid] = "absent"
    /\ st \in RemoteStates(rid)
    /\ remoteActs' = [remoteActs EXCEPT ![rid] = st]
    /\ UNCHANGED <<athletes, activities, remoteAuth, nextTok, now, req,
                   response, runs, persisted, issued, backlog, newest_first, utc_offset, user_settings, settings_seq>>

\* An activity is edited at the remote.
RemoteEdit(rid) ==
    /\ remoteActs[rid] = "v0"
    /\ "v1" \in RemoteStates(rid)
    /\ remoteActs' = [remoteActs EXCEPT ![rid] = "v1"]
    /\ UNCHANGED <<athletes, activities, remoteAuth, nextTok, now, req,
                   response, runs, persisted, issued, backlog, newest_first, utc_offset, user_settings, settings_seq>>

\* ---------------------------------------------------------- specification
\* Athlete 1 starts with a token that expires this second or the next (the
\* clock can then move past it); athlete 2 with a fresh one.
ExpiryChoices == {Now0, Now0 + 1}

InitWith(backlogs, orders, offsets) ==
    /\ \E e \in ExpiryChoices :
          /\ athletes = [a \in AthleteIds |->
                [access_token |-> a, refresh_token |-> a,
                 expires_at |-> IF a = 1 THEN e ELSE Now0 + TOKEN_LIFETIME]]
          /\ remoteAuth = athletes
          /\ persisted = {athletes[a] : a \in AthleteIds}
          /\ issued = {athletes[a] : a \in AthleteIds}
    /\ activities = <<>>
    /\ nextTok = 3
    /\ remoteActs = [rid \in RemoteIds |-> IF Owner(rid) = 1 THEN "absent" ELSE "v0"]
    /\ now = Now0
    /\ req = EmptyBag
    /\ response = Response(Idle, 0)
    /\ runs = 0
    /\ backlog \in backlogs
    /\ newest_first \in orders
    /\ utc_offset \in offsets
    /\ user_settings = <<>>
    /\ settings_seq = 0

Init == InitWith({FALSE}, {FALSE}, {0})

Next ==
    \/ \E a \in RequestedAthleteIds : SyncStart(a)
    \/ \E h \in InFlight : SyncRefresh(h)
    \/ \E h \in InFlight : SyncRefreshCommit(h)
    \/ \E h \in InFlight : SyncHorizon(h)
    \/ \E h \in InFlight : SyncFetch(h)
    \/ \E h \in InFlight : SyncMerge(h)
    \/ \E h \in InFlight : SyncCommit(h)
    \/ \E a \in RequestedAthleteIds, id \in ActivityIdChoices :
          StreamsStart(a, id)
    \/ \E h \in InFlight : StreamsRefresh(h)
    \/ \E h \in InFlight : StreamsRefreshCommit(h)
    \/ \E h \in InFlight : StreamsFetch(h)
    \/ Tick
    \/ \E rid \in RemoteIds, st \in {"v0", "bad", "null"} : RemoteCreate(rid, st)
    \/ \E rid \in RemoteIds : RemoteEdit(rid)

Spec == Init /\ [][Next]_vars

\* Syncs of the second account run one after the other against a remote
\* that does not change; the account holds its long history or not, and
\* the remote lists oldest first or newest first.
InitBacklog == InitWith(BOOLEAN, BOOLEAN, UtcOffsets)

SerialSyncStart(a) ==
    /\ req = EmptyBag
    /\ SyncStart(a)

NextBacklog ==
    \/ SerialSyncStart(2)
    \/ \E h \in InFlight : SyncHorizon(h)
    \/ \E h \in InFlight : SyncFetch(h)
    \/ \E h \in InFlight : SyncMerge(h)
    \/ \E h \in InFlight : SyncCommit(h)

SpecBacklog == InitBacklog /\ [][NextBacklog]_vars

\* Syncs of either account run one after the other, refreshing the token
\* when it has expired; the clock moves and activities are uploaded between
\* two requests.  The server's local time is UTC or not; no account holds
\* a long history.
InitSerial == InitWith({FALSE}, BOOLEAN, UtcOffsets)

SerialTick ==
    /\ req = EmptyBag
    /\ Tick

SerialRemoteCreate(rid) ==
    /\ req = EmptyBag
    /\ RemoteCreate(rid, "v0")

NextSerial ==
    \/ \E a \in AthleteIds : SerialSyncStart(a)
    \/ \E h \in InFlight : SyncRefresh(h)
    \/ \E h \in InFlight : SyncRefreshCommit(h)
    \/ \E h \in InFlight : SyncHorizon(h)
    \/ \E h \in InFlight : SyncFetch(h)
    \/ \E h \in InFlight : SyncMerge(h)
    \/ \E h \in InFlight : SyncCommit(h)
    \/ SerialTick
    \/ \E rid \in RemoteIds : SerialRemoteCreate(rid)

SpecSerial == InitSerial /\ [][NextSerial]_vars

\* Syncs of either account run one after the other on a server whose local
\* time is UTC, the clock moving between two requests: the first account's
\* token expires, the second account holds its long history or not; the
\* remote lists oldest first.
InitPaged == InitWith(BOOLEAN, {FALSE}, {0})

NextPaged ==
    \/ \E a \in AthleteIds : SerialSyncStart(a)
    \/ \E h \in InFlight : SyncRefresh(h)
    \/ \E h \in InFlight : SyncRefreshCommit(h)
    \/ \E h \in InFlight : SyncHorizon(h)
    \/ \E h \in InFlight : SyncFetch(h)
    \/ \E h \in InFlight : SyncMerge(h)
    \/ \E h \in InFlight : SyncCommit(h)
    \/ SerialTick

SpecPaged == InitPaged /\ [][NextPaged]_vars

\* One call of retry_with_backoff, with any arguments and any outcomes of
\* the wrapped function.
NextRetry ==
    \/ \E m \in 0..MaxAttempts, d \in InitialDelayChoices,
          f \in BackoffFactorChoices : RetryStart(m, d, f)
    \/ \E h \in InFlight, e \in FuncOutcomes : RetryAttempt(h, e)
    \/ \E h \in InFlight : RetrySleep(h)

SpecRetry == Init /\ [][NextRetry]_vars

\* Every await of the helper comes back: the wrapped function returns or
\* raises, and a sleep ends.
SpecRetryLive ==
    /\ Init
    /\ [][NextRetry]_vars
    /\ WF_vars(\E h \in InFlight, e \in FuncOutcomes : RetryAttempt(h, e))
    /\ WF_vars(\E h \in InFlight : RetrySleep(h))

\* ----------------------------------------------------------------- claims
SyncReqs == {h \in InFlight : h.kind = "sync"}

\* The run before the one in flight was a sync that succeeded.
PreviousSyncSucceeded ==
    /\ response.kind = "sync"
    /\ response.status = 200

\* A sync that has its list and has been through it has nothing to write.
NothingToWrite(h) ==
    /\ h.new_count = 0
    /\ h.updated_count = 0
    /\ h.pending = <<>>
    /\ h.pc = "commit"

\* C1: a sync of an account that follows a successful sync of it, the remote
\* activities being the same, creates nothing, updates nothing and has no
\* write to commit.
C1_SecondSyncChangesNothing ==
    \A h \in SyncReqs :
        (PreviousSyncSucceeded /\ h.pc \in {"merge", "commit"})
            => NothingToWrite(h)

\* C2: a sync makes at most one refresh call and one list request; none when
\* the stored expiry was in the future, exactly one once past the refresh
\* step when it was in the past, and the list request is not sent before the
\* refresh has been made and stored.
C2_RefreshCalls ==
    \A h \in SyncReqs :
        /\ h.refresh_calls <= 1
        /\ h.list_calls <= 1
        /\ h.expiry_was = "future" => h.refresh_calls = 0
        /\ (h.expiry_was = "past" /\ h.pc # "refresh") => h.refresh_calls = 1
        /\ h.pc \in {"refresh", "refresh_commit", "horizon", "fetch"}
              => h.list_calls = 0

\* One sync has listed after its refresh, another without any.
C2_Witness ==
    /\ \E h \in SyncReqs : /\ h.expiry_was = "past"
                           /\ h.refresh_calls = 1
                           /\ h.list_calls = 1
    /\ \E h \in SyncReqs : /\ h.expiry_was = "future"
                           /\ h.refresh_calls = 0
                           /\ h.list_calls = 1

\* C3 as claimed: no list or streams request is sent with a token whose
\* stored expiry is less than or equal to the current time.
C3_NoRequestWithExpiredToken ==
    /\ \A h \in InFlight : ~h.stale_sent
    /\ ~response.stale_sent

C5_PersistBeforeUse ==
    /\ \A h \in InFlight :
          h.pc \in {"horizon", "fetch", "merge", "commit", "streams"}
              => h.athlete \in persisted
    /\ persisted \subseteq issued
    /\ \A a \in AthleteIds : athletes[a] \in persisted

\* A list request has been sent with a token obtained by a refresh in the
\* same call.
C5_Witness ==
    \E h \in SyncReqs :
        /\ h.refresh_result = "granted"
        /\ h.list_calls = 1

\* C6: no two stored activities share a strava_id.
C6_UniqueStravaIds ==
    \A i, j \in 1..Len(activities) :
        i # j => activities[i].strava_id # activities[j].strava_id

\* Two syncs saw the same new remote activity; one has committed it and the
\* other still holds its insert.
C6_Witness ==
    \E h \in SyncReqs :
        /\ h.pc = "commit"
        /\ \E k \in 1..Len(h.pending) :
              /\ h.pending[k].op = "ins"
              /\ \E r \in Rows(activities) :
                    r.strava_id = h.pending[k].row.strava_id

\* C7: no step changes the athlete_id or the strava_id of a stored activity,
\* and no step removes one.
C7_PairImmutable ==
    [][\A i \in 1..Len(activities) :
         /\ i <= Len(activities')
         /\ activities'[i].athlete_id = activities[i].athlete_id
         /\ activities'[i].strava_id = activities[i].strava_id]_vars

\* A stored activity has been rewritten by a later sync.
C7_Witness ==
    \E r \in Rows(activities) : r.updated_at > r.created_at

\* C8: the loop body, on an item it does not skip whose strava_id is stored,
\* queues an update of that very row (same id, same created_at, every
\* mapped field from the payload, updated_at the current time) and counts
\* it as updated; on one whose strava_id is not stored it queues one insert
\* and counts it as created.  A successful commit rewrites the updated rows
\* in place and appends exactly the inserts.
C8_MergeInPlace ==
    [][\A h \in InFlight :
         /\ \A h2 \in BagToSet(req') :
              (/\ h.pc = "merge"
               /\ h2.idx = h.idx + 1
               /\ h2.skipped = h.skipped
               /\ req' = (req (-) SetToBag({h})) (+) SetToBag({h2}))
              => LET item   == h.activities_data[h.idx]
                     stored == {r \in Rows(activities) : r.strava_id = item.id}
                     w      == h2.pending[Len(h2.pending)]
                 IN /\ h2.pending = Append(h.pending, w)
                    /\ w.row.strava_id = item.id
                    /\ w.row.athlete_id = h.athlete_id
                    /\ w.row.name = item.name
                    /\ w.row.distance = IF item.distance = {} THEN 0
                                        ELSE CHOOSE d \in item.distance : TRUE
                    /\ w.row.start_date = item.start_date
                    /\ w.row.updated_at = now
                    /\ IF stored # {}
                       THEN /\ w.op = "upd"
                            /\ \E r \in stored : /\ w.row.id = r.id
                                                 /\ w.row.created_at = r.created_at
                            /\ h2.updated_count = h.updated_count + 1
                            /\ h2.new_count = h.new_count
                       ELSE /\ w.op = "ins"
                            /\ h2.new_count = h.new_count + 1
                            /\ h2.updated_count = h.updated_count
         /\ (/\ h.pc = "commit"
             /\ req' = req (-) SetToBag({h})
             /\ response'.status = 200)
            => LET ws   == h.pending
                   upds == {k \in 1..Len(ws) : ws[k].op = "upd"}
               IN /\ Len(activities') = Len(activities) + h.new_count
                  /\ \A i \in 1..Len(activities) :
                        IF \E k \in upds : ws[k].row.id = i
                        THEN \E k \in upds : activities'[i] = ws[k].row
                        ELSE activities'[i] = activities[i]
                  /\ \A k \in 1..Len(ws) \ upds :
                        \E i \in (Len(activities) + 1)..Len(activities') :
                            activities'[i] = [ws[k].row EXCEPT !.id = i]]_vars

\* A sync holds an update of a stored activity that changes its name.
C8_Witness ==
    \E h \in SyncReqs :
        \E k \in 1..Len(h.pending) :
            /\ h.pending[k].op = "upd"
            /\ \E r \in Rows(activities) :
                  /\ r.id = h.pending[k].row.id
                  /\ r.name # h.pending[k].row.name

\* C9 as claimed: when an item of the list fails (its name is absent or
\* null), every other item of the list still has its write queued and the
\* session stays fit for the commit.  (A session that failed on a
\* concurrent duplicate is another matter and is left out.)
C9_ItemFailureSkipped ==
    \A h \in SyncReqs :
        (h.pc \in {"merge", "commit"} /\ ~DuplicateSeen(h)) =>
            LET seen == SubSeq(h.activities_data, 1, h.idx - 1)
                bad  == {i \in 1..Len(seen) : seen[i].name \in {Missing, Null}}
                good == (1..Len(seen)) \ bad
            IN /\ \A i \in good : \E k \in 1..Len(h.pending) :
                     h.pending[k].row.strava_id = seen[i].id
               /\ h.session_ok

\* C10: a commit that fails ends the call with a 500 and leaves the activity
\* table as it was; the table changes only by a whole batch, in the step in
\* which its sync succeeds.
C10_AtomicBatch ==
    [][/\ \A h \in InFlight :
            (/\ h.pc = "commit"
             /\ req' = req (-) SetToBag({h})
             /\ response'.status # 200)
            => /\ response'.status = 500
               /\ activities' = activities
       /\ activities' # activities =>
            \E h \in InFlight :
                /\ h.pc = "commit"
                /\ req' = req (-) SetToBag({h})
                /\ response'.status = 200
                /\ activities' = ApplyAll(activities, h.pending)]_vars

\* A sync with a non-empty batch has failed at its commit.
C10_Witness ==
    /\ response.kind = "sync"
    /\ response.status = 500
    /\ response.new_count + response.updated_count > 0

\* The start dates of the activities stored for an account.
OwnStarts(a) == {r.start_date : r \in {x \in Rows(activities) : x.athlete_id = a}}

\* C11: the horizon a sync sends is the latest start_date among the syncing
\* account's own stored activities, or the current time minus 30 days when
\* it has none, and every activity of the list it gets lies strictly after
\* the latest stored start.  (Runs are serial: the table and the clock are
\* as the sync found them until its commit.)
C11_HorizonFromOwnActivities ==
    \A h \in SyncReqs :
        LET own == OwnStarts(h.athlete_id)
        IN /\ h.pc = "fetch" =>
                 h.after_timestamp =
                    IF own = {} THEN now - THIRTY_DAYS
                    ELSE CHOOSE m \in own : \A o \in own : o <= m
           /\ h.pc \in {"merge", "commit"} =>
                 \A i \in 1..Len(h.activities_data) : \A o \in own :
                    h.activities_data[i].start_date > o

\* C12: the horizon a sync sends is never earlier than the start of an
\* activity already stored for its account.
C12_HorizonNotBeforeStored ==
    \A h \in SyncReqs :
        h.pc = "fetch" =>
            \A o \in OwnStarts(h.athlete_id) : h.after_timestamp >= o

\* C20: a sync makes at most one refresh request and at most one list
\* request, the refresh before the list, no streams request, and is given
\* at most one page of 100 activities.
C20_BoundedRemoteRequests ==
    /\ \A h \in SyncReqs :
          /\ h.refresh_calls <= 1
          /\ h.list_calls <= 1
          /\ h.stream_calls = 0
          /\ Len(h.activities_data) <= 100
          /\ h.pc \in {"refresh", "refresh_commit", "horizon", "fetch"}
                => h.list_calls = 0
          /\ h.pc \in {"merge", "commit"} => h.list_calls = 1
    /\ response.kind = "sync" =>
          /\ response.refresh_calls <= 1
          /\ response.list_calls <= 1
          /\ response.stream_calls = 0
          /\ response.fetched <= 100

\* A sync has refreshed its token and then been given a list.
C20_Witness ==
    \E h \in SyncReqs :
        /\ h.refresh_calls = 1
        /\ h.list_calls = 1
        /\ h.pc = "commit"

\* The calls of retry_with_backoff in flight.
RetryReqs == {h \in InFlight : h.kind = "retry"}

Is429(e) == e.exc = "HTTPException" /\ e.status_code = 429

IsPermanent(e) == e.exc = "HTTPException" /\ e.status_code \in {401, 403, 404}

\* In a call as far as v tells it, a 401, 403 or 404 can only be the outcome
\* of the last call made, with no wait after it.
NoRetryAfterPermanent(v) ==
    \A k \in 1..Len(v.outcomes) :
        IsPermanent(v.outcomes[k]) =>
            /\ k = Len(v.outcomes)
            /\ Len(v.sleeps) = k - 1

\* C15: retry_with_backoff does not go on after a 401, 403 or 404: the call
\* ends in the step the failure is seen, raising it, with no sleep after it
\* and no further call of the wrapped function.
C15_PermanentNotRetried ==
    /\ \A h \in RetryReqs :
          \A k \in 1..Len(h.outcomes) : ~IsPermanent(h.outcomes[k])
    /\ response.kind = "retry" =>
          /\ NoRetryAfterPermanent(response)
          /\ \A k \in 1..Len(response.outcomes) :
                IsPermanent(response.outcomes[k]) =>
                    /\ response.result = "raised"
                    /\ response.error = response.outcomes[k]

\* A call that had attempts left has ended on a 404 at its second attempt.
C15_Witness ==
    /\ response.kind = "retry"
    /\ response.result = "raised"
    /\ Len(response.outcomes) = 2
    /\ response.max_retries = 3
    /\ response.outcomes[2] = HTTPError(404)
    /\ Len(response.sleeps) = 1

\* In a call as far as v tells it, the wait after a 429 is 60 seconds, and
\* the wait after the next failure, unless that is a 429 too, is 60 seconds
\* times the backoff factor.
CooldownAfter429(v) ==
    /\ \A k \in 1..Len(v.sleeps) :
          Is429(v.outcomes[k]) => v.sleeps[k] = 60
    /\ \A k \in 2..Len(v.sleeps) :
          (Is429(v.outcomes[k - 1]) /\ ~Is429(v.outcomes[k])) =>
              v.sleeps[k] = 60 * v.backoff_factor

\* C16: the wait that follows a 429 is 60 seconds whatever the attempt, the
\* initial delay and the factor, and the schedule goes on from there.
C16_CooldownOn429 ==
    /\ \A h \in RetryReqs :
          /\ CooldownAfter429(h)
          /\ (h.pc = "sleep" /\ Is429(h.outcomes[Len(h.outcomes)]))
                => h.delay = 60
    /\ response.kind = "retry" => CooldownAfter429(response)

\* A call has met a 429 at its first attempt, waited 60 seconds, failed
\* otherwise and waited 60 seconds times the factor.
C16_Witness ==
    /\ response.kind = "retry"
    /\ Len(response.sleeps) = 2
    /\ Is429(response.outcomes[1])
    /\ ~Is429(response.outcomes[2])
    /\ response.initial_delay # 60
    /\ response.sleeps[1] = 60
    /\ response.sleeps[2] = 60 * response.backoff_factor

RECURSIVE Pow(_, _)
Pow(b, n) == IF n = 0 THEN 1 ELSE b * Pow(b, n - 1)

\* In a call as far as v tells it: no more calls of the wrapped function
\* than max_retries, none after a success, a wait between two calls and
\* nowhere else, and without a 429 the wait before retry k is
\* initial_delay * backoff_factor^(k-1).
BackoffSchedule(v) ==
    /\ Len(v.outcomes) <= v.max_retries
    /\ \A k \in 1..Len(v.outcomes) :
          v.outcomes[k] = Returned => k = Len(v.outcomes)
    /\ Len(v.sleeps) \in {Len(v.outcomes) - 1, Len(v.outcomes)}
    /\ (\A k \in 1..Len(v.outcomes) : ~Is429(v.outcomes[k])) =>
          \A k \in 1..Len(v.sleeps) :
              v.sleeps[k] = v.initial_delay * Pow(v.backoff_factor, k - 1)

RetryRunning == RetryReqs # {}

\* The calls made and the waits kept are within the schedule, in every call
\* in flight and in the one that ended last; a call that has ended made no
\* wait after its last attempt and returned its result or raised its error.
WithinSchedule ==
    /\ \A h \in RetryReqs :
          /\ BackoffSchedule(h)
          /\ \A k \in 1..Len(h.outcomes) : h.outcomes[k] # Returned
    /\ response.kind = "retry" =>
          /\ BackoffSchedule(response)
          /\ response.outcomes # <<>> =>
                /\ Len(response.sleeps) = Len(response.outcomes) - 1
                /\ response.error = response.outcomes[Len(response.outcomes)]
                /\ response.result = IF response.error = Returned
                                     THEN "returned" ELSE "raised"

\* C17: retry_with_backoff calls the wrapped function at most max_retries
\* times, returns on the first success, waits
\* initial_delay * backoff_factor^(k-1) before retry k when no 429 was met,
\* raises the last error with no wait after it when every attempt has
\* failed, and every call of it ends.
C17_BoundedBackoff ==
    []WithinSchedule /\ (RetryRunning ~> ~RetryRunning)

\* A call has used up its three attempts without meeting a 429.
C17_Witness ==
    /\ response.kind = "retry"
    /\ response.result = "raised"
    /\ response.max_retries = 3
    /\ Len(response.outcomes) = 3
    /\ Len(response.sleeps) = 2
    /\ \A k \in 1..3 : response.outcomes[k] = OtherError

\* The remote activity requests a handler had made when it answered.
RequestsMade == response.list_calls + response.stream_calls

\* C13: a sync or a streams call whose remote activity request was answered
\* 401 surfaces the error only after it has refreshed the token, and, the
\* refresh granted, has sent the request a second time.
C13_RefreshAndRetryOn401 ==
    (response.kind \in {"sync", "streams"} /\ response.fetch_result = "401") =>
        /\ response.refresh_calls >= 1
        /\ response.refresh_result = "granted" => RequestsMade = 2

\* C14: a sync whose list request was answered 429 surfaces the rate limit,
\* and only after it has sent the request again.
C14_RateLimitRetried ==
    (response.kind = "sync" /\ response.fetch_result = "429") =>
        /\ response.status = 429
        /\ response.list_calls > 1

\* C18: a sync does not end with a 401 on a refresh made with a refresh
\* token that another call has used up, the credential that call obtained
\* being stored.
C18_RefreshLoserRereads ==
    [][\A h \in SyncReqs :
          (/\ h.pc = "refresh"
           /\ h.athlete.refresh_token # remoteAuth[h.athlete_id].refresh_token
           /\ athletes[h.athlete_id] = remoteAuth[h.athlete_id]
           /\ req' = req (-) SetToBag({h}))
              => response'.refresh_result # "rejected"]_vars

\* C19: a remote activity request that ran into the timeout is sent again
\* before the call gives up.
C19_TimeoutRetried ==
    response.fetch_result = "timeout" => RequestsMade > 1

\* The remote identities of the stored activities.
StoredStravaIds(tbl) == {r.strava_id : r \in Rows(tbl)}

\* C21: no step takes a stored strava_id out of the activity table.
C21_StravaIdsOnlyGrow ==
    [][StoredStravaIds(activities) \subseteq StoredStravaIds(activities')]_vars

\* A sync has rewritten a stored activity and the table holds two.
C21_Witness ==
    /\ Len(activities) >= 2
    /\ response.kind = "sync"
    /\ response.status = 200
    /\ response.updated_count >= 1

\* --------------------------------------------- strava_callback (auth.py)
\* In the specifications of the callback the athlete table is the sequence
\* of its rows, each with the strava_id and the profile columns beside the
\* credentials.
StravaAthleteIds == {7001, 7002}
\* The authorization codes a client posts: one granted to each remote
\* identity, and one the remote does not know.
CallbackCodes == {"code7001", "code7002", "stale"}
CodeIdentity(code) == IF code = "code7001" THEN 7001 ELSE 7002
\* What the remote profile reads at the time of a login.
ProfileVersions == {1, 2}

CallbackFrame(code) ==
    [kind |-> "callback", pc |-> "exchange", code |-> code,
     token_data |-> NoRow, existing_athlete |-> NoRow, created |-> FALSE]

CallbackResponse(h, code) ==
    [kind |-> "callback", status |-> code, code |-> h.code,
     token_data |-> h.token_data, created |-> h.created]

\* The handler returns or raises.
CallbackEnds(h, code) ==
    /\ req' = req (-) SetToBag({h})
    /\ response' = CallbackResponse(h, code)

\* POST /strava/callback is taken up; the handler awaits the exchange.
CallbackStart(code) ==
    /\ Accept(CallbackFrame(code))
    /\ UNCHANGED <<athletes, activities, remoteAuth, nextTok, remoteActs, now,
                   persisted, issued, backlog, newest_first, utc_offset, user_settings, settings_seq>>

\* exchange_code_for_token: the remote grants a fresh credential triple with
\* the athlete's profile, or answers anything but 200 (HTTPException 400),
\* or the connection fails (an unhandled exception, 500).
CallbackExchange(h) ==
    /\ h.kind = "callback"
    /\ h.pc = "exchange"
    /\ \/ /\ h.code # "stale"
          /\ \E v \in ProfileVersions :
                Continue(h, [h EXCEPT !.pc = "select",
                     !.token_data =
                         [access_token |-> nextTok, refresh_token |-> nextTok,
                          expires_at |-> now + TOKEN_LIFETIME,
                          athlete |-> [id |-> CodeIdentity(h.code),
                                       username |-> v,
                                       profile_medium |-> v]]])
          /\ nextTok' = nextTok + 1
       \/ /\ h.code = "stale"
          /\ CallbackEnds(h, 400)
          /\ nextTok' = nextTok
       \/ /\ CallbackEnds(h, 500)
          /\ nextTok' = nextTok
    /\ UNCHANGED <<athletes, activities, remoteAuth, remoteActs, now, runs,
                   persisted, issued, backlog, newest_first, utc_offset, user_settings, settings_seq>>

\* select(Athlete).where(Athlete.strava_id == strava_athlete["id"]).first()
FindAthlete(tbl, strava_id) ==
    LET hits == {i \in 1..Len(tbl) : tbl[i].strava_id = strava_id}
    IN IF hits = {} THEN NoRow
       ELSE tbl[CHOOSE i \in hits : \A j \in hits : i <= j]

\* The lookup, and the branch on its result: the handler's session now
\* holds either the loaded row with its new credentials or a new row.
CallbackSelect(h) ==
    /\ h.kind = "callback"
    /\ h.pc = "select"
    /\ LET existing_athlete == FindAthlete(athletes, h.token_data.athlete.id)
       IN Continue(h, [h EXCEPT !.pc = "commit",
                                !.existing_athlete = existing_athlete,
                                !.created = (existing_athlete = NoRow)])
    /\ UNCHANGED <<athletes, activities, remoteAuth, nextTok, remoteActs, now, runs,
                   persisted, issued, backlog, newest_first, utc_offset, user_settings, settings_seq>>

\* Mutant of AthleteStravaIdFree: the column carries no unique index.
AthleteStravaIdUnchecked(tbl, strava_id) ==
    TRUE

\* strava_id: int = Field(unique=True, index=True): an INSERT is refused
\* while a row holds the same strava_id.
AthleteStravaIdFree(tbl, strava_id) ==
    \A i \in 1..Len(tbl) : tbl[i].strava_id # strava_id

\* Athlete(strava_id=..., ..., expires_at=...) with the column defaults.
NewAthlete(token_data, id, t) ==
    [id |-> id, strava_id |-> token_data.athlete.id,
     username |-> token_data.athlete.username,
     profile_medium |-> token_data.athlete.profile_medium,
     access_token |-> token_data.access_token,
     refresh_token |-> token_data.refresh_token,
     expires_at |-> token_data.expires_at,
     created_at |-> t]

\* The UPDATE the session emits for the loaded row: the four columns the
\* handler assigned, on the row with that primary key.
RefreshAthlete(row, token_data) ==
    [row EXCEPT !.access_token = token_data.access_token,
                !.refresh_token = token_data.refresh_token,
                !.expires_at = token_data.expires_at,
                !.profile_medium = token_data.athlete.profile_medium]

\* session.commit(): the pending INSERT or UPDATE reaches the table, or the
\* INSERT breaks the unique index and the handler dies of the
\* IntegrityError (500).
CallbackCommit(h) ==
    /\ h.kind = "callback"
    /\ h.pc = "commit"
    /\ IF h.created
       THEN IF AthleteStravaIdFree(athletes, h.token_data.athlete.id)
            THEN /\ athletes' = Append(athletes,
                        NewAthlete(h.token_data, Len(athletes) + 1, now))
                 /\ CallbackEnds(h, 200)
            ELSE /\ athletes' = athletes
                 /\ CallbackEnds(h, 500)
       ELSE /\ athletes' = [i \in 1..Len(athletes) |->
                   IF athletes[i].id = h.existing_athlete.id
                   THEN RefreshAthlete(athletes[i], h.token_data)
                   ELSE athletes[i]]
            /\ CallbackEnds(h, 200)
    /\ UNCHANGED <<activities, remoteAuth, nextTok, remoteActs, now, runs,
                   persisted, issued, backlog, newest_first, utc_offset, user_settings, settings_seq>>

\* Nobody has logged in yet.
InitAuth ==
    /\ athletes = <<>>
    /\ activities = <<>>
    /\ remoteAuth = <<>>
    /\ persisted = {}
    /\ issued = {}
    /\ nextTok = 3
    /\ remoteActs = [rid \in RemoteIds |-> "absent"]
    /\ now = Now0
    /\ req = EmptyBag
    /\ response = CallbackResponse(CallbackFrame("stale"), 0)
    /\ runs = 0
    /\ backlog = FALSE
    /\ newest_first = FALSE
    /\ utc_offset = 0
    /\ user_settings = <<>>
    /\ settings_seq = 0

NextAuth ==
    \/ \E code \in CallbackCodes : CallbackStart(code)
    \/ \E h \in InFlight : CallbackExchange(h)
    \/ \E h \in InFlight : CallbackSelect(h)
    \/ \E h \in InFlight : CallbackCommit(h)
    \/ Tick

SpecAuth == InitAuth /\ [][NextAuth]_vars

\* ------------------------------------------------------------ C22
AthleteStravaIdsDistinct(tbl) ==
    \A i, j \in 1..Len(tbl) : tbl[i].strava_id = tbl[j].strava_id => i = j

\* The step is the successful end of callback h.
CallbackSucceeds(h) ==
    /\ h.kind = "callback"
    /\ h.pc = "commit"
    /\ req' = req (-) SetToBag({h})
    /\ response' = CallbackResponse(h, 200)

\* What a successful callback leaves in the table: for a known identity the
\* same rows with the credentials of that identity's row replaced by the
\* granted ones, for an unknown identity one more row, holding them.
CallbackEffect(h) ==
    LET sid == h.token_data.athlete.id
        known == \E i \in 1..Len(athletes) : athletes[i].strava_id = sid
        Granted(row) ==
            /\ row.strava_id = sid
            /\ row.access_token = h.token_data.access_token
            /\ row.refresh_token = h.token_data.refresh_token
            /\ row.expires_at = h.token_data.expires_at
    IN IF known
       THEN /\ Len(athletes') = Len(athletes)
            /\ \A i \in 1..Len(athletes) :
                  /\ athletes'[i].id = athletes[i].id
                  /\ athletes'[i].strava_id = athletes[i].strava_id
                  /\ athletes'[i].created_at = athletes[i].created_at
                  /\ IF athletes[i].strava_id = sid
                     THEN Granted(athletes'[i])
                     ELSE athletes'[i] = athletes[i]
       ELSE /\ Len(athletes') = Len(athletes) + 1
            /\ SubSeq(athletes', 1, Len(athletes)) = athletes
            /\ Granted(athletes'[Len(athletes')])

\* C22: the athlete table never holds two rows of one remote identity; a
\* successful callback for a known identity rewrites that identity's row in
\* place, one for an unknown identity adds exactly one row.
C22_OneAthletePerIdentity ==
    [][/\ AthleteStravaIdsDistinct(athletes')
       /\ \A h \in InFlight : CallbackSucceeds(h) => CallbackEffect(h)]_vars

\* A second login of an identity has replaced the credentials of its row.
C22_Witness ==
    /\ Len(athletes) = 1
    /\ response.kind = "callback"
    /\ response.status = 200
    /\ ~response.created
    /\ athletes[1].access_token = response.token_data.access_token
    /\ athletes[1].access_token # 3

\* ------------------------------- zone arrays (models/user_settings.py,
\* ------------------------------------ services/zone_calculator.py)
\* Zone thresholds are decimal numbers with one place (6.5 min/km, 100.0 %):
\* they are kept in tenths, 6.5 as 65 and 100.0 as 1000.
Scale == 10

ZoneModels == {"3_zone", "5_zone", "7_zone"}

\* zone_counts = {"3_zone": 3, "5_zone": 5, "7_zone": 7}
zone_counts(zone_model) ==
    CASE zone_model = "3_zone" -> 3
      [] zone_model = "5_zone" -> 5
      [] zone_model = "7_zone" -> 7

get_default_zones(zone_model_type) ==
    CASE zone_model_type = "3_zone" ->
            [hr_zones |-> <<700, 850, 1000>>,
             pace_zones |-> <<65, 55, 45>>]
      [] zone_model_type = "7_zone" ->
            [hr_zones |-> <<550, 650, 750, 820, 890, 940, 1000>>,
             pace_zones |-> <<75, 65, 55, 50, 45, 40, 35>>]
      [] OTHER ->
            [hr_zones |-> <<600, 700, 800, 900, 1000>>,
             pace_zones |-> <<70, 60, 50, 45, 40>>]

Valid == [is_valid |-> TRUE, error_message |-> ""]
Invalid(msg) == [is_valid |-> FALSE, error_message |-> msg]

\* Mutant of validate_zone_array: the order of the values is not looked at.
validate_zone_arrayAnyOrder(zones, zone_type, zone_model) ==
    IF zone_model \notin ZoneModels
    THEN Invalid("Invalid zone model")
    ELSE IF Len(zones) # zone_counts(zone_model)
    THEN Invalid("Expected another number of zones")
    ELSE IF \E i \in 1..Len(zones) : zones[i] <= 0
    THEN Invalid("All zone values must be positive")
    ELSE IF zone_type = "hr"
    THEN IF \E i \in 1..Len(zones) : zones[i] < 0 \/ zones[i] > 100 * Scale
         THEN Invalid("HR zone percentages must be between 0 and 100")
         ELSE IF zones[Len(zones)] # 100 * Scale
         THEN Invalid("Last HR zone must be 100% (maximum effort)")
         ELSE Valid
    ELSE IF zone_type = "pace"
    THEN IF \E i \in 1..Len(zones) : zones[i] < 25 \/ zones[i] > 10 * Scale
         THEN Invalid("Pace zones should be between 2.5 and 10.0 min/km")
         ELSE Valid
    ELSE Invalid("Invalid zone type")

\* The checks in the order the code makes them; the first that fails gives
\* the message.
validate_zone_array(zones, zone_type, zone_model) ==
    IF zone_model \notin ZoneModels
    THEN Invalid("Invalid zone model")
    ELSE IF Len(zones) # zone_counts(zone_model)
    THEN Invalid("Expected another number of zones")
    ELSE IF \E i \in 1..Len(zones) : zones[i] <= 0
    THEN Invalid("All zone values must be positive")
    ELSE IF zone_type = "hr"
    THEN IF ~ \A i \in 1..(Len(zones) - 1) : zones[i] < zones[i + 1]
         THEN Invalid("HR zones must be in strictly ascending order")
         ELSE IF \E i \in 1..Len(zones) : zones[i] < 0 \/ zones[i] > 100 * Scale
         THEN Invalid("HR zone percentages must be between 0 and 100")
         ELSE IF zones[Len(zones)] # 100 * Scale
         THEN Invalid("Last HR zone must be 100% (maximum effort)")
         ELSE Valid
    ELSE IF zone_type = "pace"
    THEN IF ~ \A i \in 1..(Len(zones) - 1) : zones[i] > zones[i + 1]
         THEN Invalid("Pace zones must be in descending order (slower to faster)")
         ELSE IF \E i \in 1..Len(zones) : zones[i] < 25 \/ zones[i] > 10 * Scale
         THEN Invalid("Pace zones should be between 2.5 and 10.0 min/km")
         ELSE Valid
    ELSE Invalid("Invalid zone type")

\* ------------------------------------------- settings (api/settings.py)
\* The settings handlers have no await: each runs from its lookup to its
\* last commit before the event loop takes up another request.
MaxSettingsOps == 3

\* UserSettings(athlete_id=athlete_id): the column defaults; the id is given
\* at the INSERT.
UserSettingsNew(athlete_id, t) ==
    [id |-> 0, athlete_id |-> athlete_id, zone_model_type |-> "5_zone",
     max_heart_rate |-> 190, rest_heart_rate |-> 60,
     hr_zones |-> <<600, 700, 800, 900, 1000>>,
     pace_zones |-> <<70, 60, 50, 45, 40>>,
     calendar_start_day |-> "monday", distance_unit |-> "km",
     temperature_unit |-> "celsius", created_at |-> t, updated_at |-> t]

\* Mutant of set_defaults_for_zone_model: the arrays stay as they are.
set_defaults_for_zone_modelKeepsArrays(settings) ==
    settings

set_defaults_for_zone_model(settings) ==
    [settings EXCEPT
        !.hr_zones = get_default_zones(settings.zone_model_type).hr_zones,
        !.pace_zones = get_default_zones(settings.zone_model_type).pace_zones]

\* Mutant of create_default: the new record is a 3-zone one.
create_defaultThreeZone(athlete_id, t) ==
    set_defaults_for_zone_model(
        [UserSettingsNew(athlete_id, t) EXCEPT !.zone_model_type = "3_zone"])

create_default(athlete_id, t) ==
    set_defaults_for_zone_model(UserSettingsNew(athlete_id, t))

update_timestamp(settings, t) ==
    [settings EXCEPT !.updated_at = t]

\* select(UserSettings).where(UserSettings.athlete_id == athlete_id).first()
FindSettings(tbl, athlete_id) ==
    LET hits == {i \in 1..Len(tbl) : tbl[i].athlete_id = athlete_id}
    IN IF hits = {} THEN NoRow
       ELSE tbl[CHOOSE i \in hits : \A j \in hits : i <= j]

\* What the database holds a settings row to: athlete_id names an athlete
\* (foreign_key="athlete.id") and no other row has it (uq_athlete_id).
SettingsRowAllowed(tbl, row) ==
    /\ row.athlete_id \in DOMAIN athletes
    /\ \A i \in 1..Len(tbl) :
          tbl[i].id # row.id => tbl[i].athlete_id # row.athlete_id

DeleteSettings(tbl, row) ==
    SelectSeq(tbl, LAMBDA r : r.id # row.id)

\* A settings request as the properties read it: the operation, the path
\* parameter and the body.
NoUpdates ==
    [zone_model_type |-> {}, hr_zones |-> {}, pace_zones |-> {},
     max_heart_rate |-> {}, rest_heart_rate |-> {},
     calendar_start_day |-> {}, distance_unit |-> {},
     temperature_unit |-> {}, athlete_id |-> {}]

SettingsCall(op, athlete_id, zone_model_type, updates) ==
    [op |-> op, athlete_id |-> athlete_id,
     zone_model_type |-> zone_model_type, updates |-> updates]

\* The handler returns the record's columns or raises.
SettingsResponse(call, code, settings) ==
    [kind |-> "settings", op |-> call.op, athlete_id |-> call.athlete_id,
     zone_model_type |-> call.zone_model_type, updates |-> call.updates,
     status |-> code, settings |-> settings]

\* A handler has run: the table and the id sequence are as it left them.
SettingsDone(call, code, settings, tbl, seq) ==
    /\ runs < MaxSettingsOps
    /\ runs' = runs + 1
    /\ user_settings' = tbl
    /\ settings_seq' = seq
    /\ response' = SettingsResponse(call, code, settings)
    /\ UNCHANGED <<athletes, activities, remoteAuth, nextTok, remoteActs, now,
                   req, persisted, issued, backlog, newest_first, utc_offset>>

\* session.add(new record); session.commit(): the INSERT takes the next id
\* and either stays or is refused (an unhandled IntegrityError, 500).
InsertOrFail(call, tbl, settings) ==
    LET row == [settings EXCEPT !.id = settings_seq + 1]
    IN IF SettingsRowAllowed(tbl, row)
       THEN SettingsDone(call, 200, row, Append(tbl, row), settings_seq + 1)
       ELSE SettingsDone(call, 500, NoRow, tbl, settings_seq + 1)

\* GET /{athlete_id}
get_settings(athlete_id) ==
    LET call == SettingsCall("get", athlete_id, Missing, NoUpdates)
        settings == FindSettings(user_settings, athlete_id)
    IN IF settings = NoRow
       THEN InsertOrFail(call, user_settings, create_default(athlete_id, now))
       ELSE SettingsDone(call, 200, settings, user_settings, settings_seq)

\* POST /{athlete_id}/reset: the delete is committed before the insert.
reset_settings(athlete_id) ==
    LET call == SettingsCall("reset", athlete_id, Missing, NoUpdates)
        settings == FindSettings(user_settings, athlete_id)
        tbl == IF settings = NoRow THEN user_settings
               ELSE DeleteSettings(user_settings, settings)
    IN InsertOrFail(call, tbl, create_default(athlete_id, now))

\* session.add(loaded record); session.commit(): the UPDATE of the row with
\* the loaded primary key stays or is refused (500).
UpdateOrFail(call, loaded, settings) ==
    IF SettingsRowAllowed(user_settings, settings)
    THEN SettingsDone(call, 200, settings,
             [i \in 1..Len(user_settings) |->
                 IF user_settings[i].id = loaded.id THEN settings
                 ELSE user_settings[i]],
             settings_seq)
    ELSE SettingsDone(call, 500, NoRow, user_settings, settings_seq)

\* POST /{athlete_id}/change-zone-model; zone_model_type is
\* new_zone_model.get("zone_model_type"), Missing for None.
change_zone_model(athlete_id, zone_model_type) ==
    LET call == SettingsCall("change", athlete_id, zone_model_type, NoUpdates)
        settings == FindSettings(user_settings, athlete_id)
    IN IF zone_model_type = Missing \/ zone_model_type = ""
          \/ zone_model_type \notin ZoneModels
       THEN SettingsDone(call, 400, NoRow, user_settings, settings_seq)
       ELSE IF settings = NoRow
       THEN SettingsDone(call, 404, NoRow, user_settings, settings_seq)
       ELSE UpdateOrFail(call, settings,
                update_timestamp(
                    set_defaults_for_zone_model(
                        [settings EXCEPT !.zone_model_type = zone_model_type]),
                    now))

\* updates.get(key, default)
Given(updates, key, default) ==
    IF updates[key] = {} THEN default ELSE CHOOSE v \in updates[key] : TRUE

\* for key, value in updates.items(): setattr(settings, key, value)
ApplyUpdates(settings, updates) ==
    [key \in DOMAIN settings |->
        IF key \in DOMAIN updates
        THEN Given(updates, key, settings[key])
        ELSE settings[key]]

\* Mutant of UpdateRejection: the heart rates are not looked at.
UpdateRejectionNoHeartRate(settings, updates) ==
    IF updates.zone_model_type # {}
       /\ Given(updates, "zone_model_type", "") \notin ZoneModels
    THEN "Invalid zone_model_type"
    ELSE ""

\* Mutant of UpdateRejection: the display preferences are not looked at.
UpdateRejectionNoPreferences(settings, updates) ==
    IF updates.zone_model_type # {}
       /\ Given(updates, "zone_model_type", "") \notin ZoneModels
    THEN "Invalid zone_model_type"
    ELSE IF \/ Given(updates, "max_heart_rate", settings.max_heart_rate)
                 \notin 120..220
            \/ Given(updates, "rest_heart_rate", settings.rest_heart_rate)
                 \notin 30..100
    THEN "Heart rate out of range"
    ELSE IF /\ updates.hr_zones # {}
            /\ ~validate_zone_array(
                   Given(updates, "hr_zones", <<>>), "hr",
                   Given(updates, "zone_model_type",
                         settings.zone_model_type)).is_valid
    THEN "Invalid HR zones"
    ELSE IF /\ updates.pace_zones # {}
            /\ ~validate_zone_array(
                   Given(updates, "pace_zones", <<>>), "pace",
                   Given(updates, "zone_model_type",
                         settings.zone_model_type)).is_valid
    THEN "Invalid pace zones"
    ELSE ""

\* The first check of update_settings that fails, as its status detail
\* (settings.py lines 93 to 152); "" when all pass.
UpdateRejection(settings, updates) ==
    LET zone_model == Given(updates, "zone_model_type", settings.zone_model_type)
        max_hr == Given(updates, "max_heart_rate", settings.max_heart_rate)
        rest_hr == Given(updates, "rest_heart_rate", settings.rest_heart_rate)
    IN IF updates.zone_model_type # {} /\ zone_model \notin ZoneModels
       THEN "Invalid zone_model_type"
       ELSE IF /\ updates.hr_zones # {}
               /\ ~validate_zone_array(Given(updates, "hr_zones", <<>>),
                                       "hr", zone_model).is_valid
       THEN "Invalid HR zones"
       ELSE IF /\ updates.pace_zones # {}
               /\ ~validate_zone_array(Given(updates, "pace_zones", <<>>),
                                       "pace", zone_model).is_valid
       THEN "Invalid pace zones"
       ELSE IF max_hr <= rest_hr
       THEN "Max heart rate must be greater than rest heart rate"
       ELSE IF max_hr < 120 \/ max_hr > 220
       THEN "Max heart rate must be between 120 and 220"
       ELSE IF rest_hr < 30 \/ rest_hr > 100
       THEN "Rest heart rate must be between 30 and 100"
       ELSE IF /\ updates.calendar_start_day # {}
               /\ updates.calendar_start_day \cap {"monday", "sunday"} = {}
       THEN "calendar_start_day must be 'monday' or 'sunday'"
       ELSE IF /\ updates.distance_unit # {}
               /\ updates.distance_unit \cap {"km", "miles"} = {}
       THEN "distance_unit must be 'km' or 'miles'"
       ELSE IF /\ updates.temperature_unit # {}
               /\ updates.temperature_unit \cap {"celsius", "fahrenheit"} = {}
       THEN "temperature_unit must be 'celsius' or 'fahrenheit'"
       ELSE ""

\* PUT /{athlete_id}
update_settings(athlete_id, updates) ==
    LET call == SettingsCall("update", athlete_id, Missing, updates)
        settings == FindSettings(user_settings, athlete_id)
    IN IF settings = NoRow
       THEN SettingsDone(call, 404, NoRow, user_settings, settings_seq)
       ELSE IF UpdateRejection(settings, updates) # ""
       THEN SettingsDone(call, 400, NoRow, user_settings, settings_seq)
       ELSE UpdateOrFail(call, settings,
                update_timestamp(ApplyUpdates(settings, updates), now))

\* The bodies clients send to change-zone-model and to PUT: each key alone
\* and the combinations the validation tells apart.
ZoneModelChoices == ZoneModels \cup {"9_zone", "", Missing}

UpdateChoices ==
    {NoUpdates,
     [NoUpdates EXCEPT !.zone_model_type = {"3_zone"}],
     [NoUpdates EXCEPT !.zone_model_type = {"9_zone"}],
     [NoUpdates EXCEPT !.zone_model_type = {"7_zone"},
                       !.hr_zones = {get_default_zones("7_zone").hr_zones},
                       !.pace_zones = {get_default_zones("7_zone").pace_zones}],
     [NoUpdates EXCEPT !.zone_model_type = {"3_zone"},
                       !.hr_zones = {<<600, 800, 1000>>}],
     [NoUpdates EXCEPT !.hr_zones = {<<500, 650, 800, 900, 1000>>}],
     [NoUpdates EXCEPT !.hr_zones = {<<600, 600, 800, 900, 1000>>}],
     [NoUpdates EXCEPT !.hr_zones = {<<700, 850, 1000>>}],
     [NoUpdates EXCEPT !.pace_zones = {<<60, 50, 40>>}],
     [NoUpdates EXCEPT !.pace_zones = {<<70, 60, 50, 45, 20>>}],
     [NoUpdates EXCEPT !.max_heart_rate = {200}],
     [NoUpdates EXCEPT !.max_heart_rate = {230}],
     [NoUpdates EXCEPT !.rest_heart_rate = {100}, !.max_heart_rate = {120}],
     [NoUpdates EXCEPT !.rest_heart_rate = {20}],
     [NoUpdates EXCEPT !.rest_heart_rate = {45}],
     [NoUpdates EXCEPT !.calendar_start_day = {"sunday"}],
     [NoUpdates EXCEPT !.calendar_start_day = {"friday"}],
     [NoUpdates EXCEPT !.distance_unit = {"miles"}],
     [NoUpdates EXCEPT !.distance_unit = {"yards"}],
     [NoUpdates EXCEPT !.temperature_unit = {"kelvin"}],
     [NoUpdates EXCEPT !.athlete_id = {2}]}

NextSettings ==
    \/ \E a \in RequestedAthleteIds : get_settings(a)
    \/ \E a \in RequestedAthleteIds, u \in UpdateChoices : update_settings(a, u)
    \/ \E a \in RequestedAthleteIds : reset_settings(a)
    \/ \E a \in RequestedAthleteIds, m \in ZoneModelChoices :
          change_zone_model(a, m)
    \/ Tick

\* Two athletes have logged in; nobody has opened the settings yet.
InitSettings ==
    /\ Init
    /\ athletes[1].expires_at = Now0

SpecSettings == InitSettings /\ [][NextSettings]_vars

\* ------------------------------------------------------------ C23 .. C25
\* The step is the run of one settings handler of the given kind.
SettingsStep(op) ==
    /\ runs' = runs + 1
    /\ response'.kind = "settings"
    /\ response'.op = op

\* C23: every stored settings record has as many hr_zones and as many
\* pace_zones as its zone_model_type has zones.
C23_ZoneArrayLengths ==
    \A i \in 1..Len(user_settings) :
        LET s == user_settings[i]
        IN /\ s.zone_model_type \in ZoneModels
           /\ Len(s.hr_zones) = zone_counts(s.zone_model_type)
           /\ Len(s.pace_zones) = zone_counts(s.zone_model_type)

\* What change_zone_model leaves of record old when it sets model m.
ZoneModelChanged(old, new, m) ==
    /\ new.zone_model_type = m
    /\ new.hr_zones = get_default_zones(m).hr_zones
    /\ new.pace_zones = get_default_zones(m).pace_zones
    /\ new.max_heart_rate = old.max_heart_rate
    /\ new.rest_heart_rate = old.rest_heart_rate
    /\ new.calendar_start_day = old.calendar_start_day
    /\ new.distance_unit = old.distance_unit
    /\ new.temperature_unit = old.temperature_unit
    /\ new.id = old.id
    /\ new.athlete_id = old.athlete_id
    /\ new.created_at = old.created_at

\* C24: change_zone_model with a recognized model, for an athlete who has a
\* settings record, succeeds and rewrites that record alone: the model and
\* both arrays become the model's defaults, the heart rates, the display
\* preferences, id, athlete_id and created_at stay; with an unrecognized,
\* empty or missing model it answers 400 and the table stays as it was (as
\* it does, with 404, when the athlete has no record).
C24_ChangeZoneModel ==
    [][SettingsStep("change") =>
         LET a == response'.athlete_id
             m == response'.zone_model_type
             old == FindSettings(user_settings, a)
         IN IF m \in ZoneModels
            THEN IF old = NoRow
                 THEN /\ response'.status = 404
                      /\ user_settings' = user_settings
                 ELSE /\ response'.status = 200
                      /\ Len(user_settings') = Len(user_settings)
                      /\ \A i \in 1..Len(user_settings) :
                            IF user_settings[i].id = old.id
                            THEN /\ ZoneModelChanged(old, user_settings'[i], m)
                                 /\ response'.settings = user_settings'[i]
                            ELSE user_settings'[i] = user_settings[i]
            ELSE /\ response'.status = 400
                 /\ user_settings' = user_settings]_vars

\* A record whose maximum heart rate had been set to 200 was changed to the
\* 7-zone model and has kept it.
C24_Witness ==
    /\ response.kind = "settings"
    /\ response.op = "change"
    /\ response.status = 200
    /\ response.settings.zone_model_type = "7_zone"
    /\ response.settings.max_heart_rate = 200
    /\ Len(response.settings.hr_zones) = 7

SettingsAthleteIdsDistinct(tbl) ==
    \A i, j \in 1..Len(tbl) : tbl[i].athlete_id = tbl[j].athlete_id => i = j

\* The record a first access creates.
FiveZoneDefaults(s, athlete_id) ==
    /\ s.athlete_id = athlete_id
    /\ s.zone_model_type = "5_zone"
    /\ s.hr_zones = <<600, 700, 800, 900, 1000>>
    /\ s.pace_zones = <<70, 60, 50, 45, 40>>
    /\ s.max_heart_rate = 190
    /\ s.rest_heart_rate = 60
    /\ s.calendar_start_day = "monday"
    /\ s.distance_unit = "km"
    /\ s.temperature_unit = "celsius"

\* C25: no two settings records share an athlete_id; get_settings for an
\* existing athlete succeeds, adding one record of 5-zone defaults when the
\* athlete has none and otherwise returning the athlete's record and
\* leaving the table as it was.
C25_OneSettingsPerAthlete ==
    [][/\ SettingsAthleteIdsDistinct(user_settings')
       /\ (SettingsStep("get") /\ response'.athlete_id \in DOMAIN athletes) =>
            LET a == response'.athlete_id
                old == FindSettings(user_settings, a)
            IN /\ response'.status = 200
               /\ IF old = NoRow
                  THEN /\ user_settings' =
                             Append(user_settings, response'.settings)
                       /\ FiveZoneDefaults(response'.settings, a)
                  ELSE /\ user_settings' = user_settings
                       /\ response'.settings = old]_vars

\* After a first access and a reset, a later access returns the record the
\* reset created, the only one.
C25_Witness ==
    /\ response.kind = "settings"
    /\ response.op = "get"
    /\ response.status = 200
    /\ runs = 3
    /\ settings_seq = 2
    /\ Len(user_settings) = 1
    /\ response.settings = user_settings[1]
    /\ response.settings.id = 2

\* -------------------------- zone lookups (services/zone_calculator.py)
\* int(x) of the quotient n / d: the fraction is cut off, towards zero.
IntOf(n, d) ==
    IF n >= 0 THEN n \div d ELSE 0 - ((0 - n) \div d)

\* zone_max = int(settings.max_heart_rate * zone_percent / 100.0), each
\* zone starting where the one before ends and the first at the resting
\* heart rate; no hr_zones, no zones.
calculate_hr_zones(settings) ==
    [i \in 1..Len(settings.hr_zones) |->
        <<IF i = 1 THEN settings.rest_heart_rate
          ELSE IntOf(settings.max_heart_rate * settings.hr_zones[i - 1],
                     100 * Scale),
          IntOf(settings.max_heart_rate * settings.hr_zones[i], 100 * Scale)>>]

\* Mutant of get_hr_zone: a zone does not include its upper end.
get_hr_zoneHalfOpen(heart_rate, settings) ==
    LET zones == calculate_hr_zones(settings)
        hits == {i \in 1..Len(zones) :
                    zones[i][1] <= heart_rate /\ heart_rate < zones[i][2]}
    IN IF heart_rate < settings.rest_heart_rate THEN 0
       ELSE IF hits # {} THEN CHOOSE i \in hits : \A j \in hits : i <= j
       ELSE Len(zones)

get_hr_zone(heart_rate, settings) ==
    LET zones == calculate_hr_zones(settings)
        hits == {i \in 1..Len(zones) :
                    zones[i][1] <= heart_rate /\ heart_rate <= zones[i][2]}
    IN IF heart_rate < settings.rest_heart_rate THEN 0
       ELSE IF hits # {} THEN CHOOSE i \in hits : \A j \in hits : i <= j
       ELSE Len(zones)

\* float('inf'): above every pace.
Infinity == 1000000

calculate_pace_zones(settings) ==
    [i \in 1..Len(settings.pace_zones) |->
        <<IF i = 1 THEN Infinity ELSE settings.pace_zones[i - 1],
          settings.pace_zones[i]>>]

\* Mutant of get_pace_zone: a pace faster than every threshold finds no zone.
get_pace_zoneNoTop(pace, settings) ==
    LET zones == calculate_pace_zones(settings)
        hits == {i \in 1..Len(zones) :
                    zones[i][2] <= pace /\ pace <= zones[i][1]}
    IN IF settings.pace_zones = <<>> THEN 0
       ELSE IF hits # {} THEN CHOOSE i \in hits : \A j \in hits : i <= j
       ELSE 0

get_pace_zone(pace, settings) ==
    LET zones == calculate_pace_zones(settings)
        hits == {i \in 1..Len(zones) :
                    zones[i][2] <= pace /\ pace <= zones[i][1]}
    IN IF settings.pace_zones = <<>> THEN 0
       ELSE IF hits # {} THEN CHOOSE i \in hits : \A j \in hits : i <= j
       ELSE IF pace < settings.pace_zones[Len(settings.pace_zones)]
       THEN Len(zones)
       ELSE 0

\* ------------------------------------------- format_pace and parse_pace
\* A str is the sequence of its characters.  Paces in seconds are kept in
\* tenths of a second, as the thresholds are.
DigitChars == <<"0", "1", "2", "3", "4", "5", "6", "7", "8", "9">>

\* str(n) for n >= 0
RECURSIVE Digits(_)
Digits(n) ==
    IF n < 10 THEN <<DigitChars[n + 1]>>
    ELSE Digits(n \div 10) \o <<DigitChars[(n % 10) + 1]>>

\* f"{n:02d}" for n >= 0
TwoDigits(n) ==
    IF n < 10 THEN <<"0">> \o Digits(n) ELSE Digits(n)

\* Mutant of format_pace: the seconds are written without padding.
format_paceUnpadded(seconds_per_km) ==
    IF seconds_per_km <= 0 THEN <<"0", ":", "0", "0">>
    ELSE LET minutes == seconds_per_km \div (60 * Scale)
             seconds == (seconds_per_km % (60 * Scale)) \div Scale
         IN Digits(minutes) \o <<":">> \o Digits(seconds)

format_pace(seconds_per_km) ==
    IF seconds_per_km <= 0 THEN <<"0", ":", "0", "0">>
    ELSE LET minutes == seconds_per_km \div (60 * Scale)
             seconds == (seconds_per_km % (60 * Scale)) \div Scale
         IN Digits(minutes) \o <<":">> \o TwoDigits(seconds)

\* str.strip(): the blanks at both ends go.
RECURSIVE strip(_)
strip(s) ==
    IF s = <<>> THEN s
    ELSE IF Head(s) = " " THEN strip(Tail(s))
    ELSE IF s[Len(s)] = " " THEN strip(SubSeq(s, 1, Len(s) - 1))
    ELSE s

\* str.split(":")
RECURSIVE split(_)
split(s) ==
    LET colons == {i \in 1..Len(s) : s[i] = ":"}
    IN IF colons = {} THEN <<s>>
       ELSE LET i == CHOOSE c \in colons : \A c2 \in colons : c <= c2
            IN <<SubSeq(s, 1, i - 1)>> \o split(SubSeq(s, i + 1, Len(s)))

DigitValue(c) == CHOOSE d \in 0..9 : DigitChars[d + 1] = c
IsDigit(c) == \E d \in 0..9 : DigitChars[d + 1] = c

RECURSIVE DigitsValue(_)
DigitsValue(s) ==
    IF s = <<>> THEN 0
    ELSE 10 * DigitsValue(SubSeq(s, 1, Len(s) - 1)) + DigitValue(s[Len(s)])

\* int(text): blanks around, one sign, then digits only; anything else is
\* a ValueError.
IntLiteral(text) ==
    LET t == strip(text)
        signed == t # <<>> /\ Head(t) \in {"-", "+"}
        body == IF signed THEN Tail(t) ELSE t
    IN IF body = <<>> \/ \E i \in 1..Len(body) : ~IsDigit(body[i])
       THEN [ok |-> FALSE, value |-> 0]
       ELSE [ok |-> TRUE,
             value |-> IF signed /\ Head(t) = "-"
                       THEN 0 - DigitsValue(body) ELSE DigitsValue(body)]

parse_pace(pace_string) ==
    LET parts == split(strip(pace_string))
    IN IF Len(parts) # 2 THEN 0
       ELSE LET minutes == IntLiteral(parts[1])
                seconds == IntLiteral(parts[2])
            IN IF ~minutes.ok \/ ~seconds.ok THEN 0
               ELSE (minutes.value * 60 + seconds.value) * Scale

\* --------------------------------------------------- calls of the helpers
\* The longest pace the calls are made with, in whole minutes.
MaxPaceMinutes == 11

\* Values put in the place of one threshold: around zero, around the ends
\* of both ranges, inside them, and on other thresholds of the defaults.
ZoneValueChoices ==
    {0 - 5, 0, 24, 25, 47, 60, 70, 100, 101, 600, 725, 900, 1000, 1001}

DefaultArrays ==
    UNION {{get_default_zones(m).hr_zones, get_default_zones(m).pace_zones} :
              m \in ZoneModels}

\* The default arrays, each with one threshold replaced or with its last
\* threshold left out, and the empty array.
ZoneArrayChoices ==
    DefaultArrays
    \cup UNION {{[z EXCEPT ![i] = v] :
                    i \in 1..Len(z), v \in ZoneValueChoices} :
                z \in DefaultArrays}
    \cup {SubSeq(z, 1, Len(z) - 1) : z \in DefaultArrays}
    \cup {<<>>}

\* Settings the lookups are called with: the heart rates at and between the
\* ends of their ranges, the default arrays, custom ones, and none.
HrZoneChoices ==
    {get_default_zones(m).hr_zones : m \in ZoneModels}
    \cup {<<500, 650, 800, 900, 1000>>, <<1, 2, 1000>>, <<>>}

PaceZoneChoices ==
    {get_default_zones(m).pace_zones : m \in ZoneModels}
    \cup {<<100, 62, 25>>, <<>>}

ZoneSettingsChoices ==
    {[UserSettingsNew(1, Now0) EXCEPT !.hr_zones = hz, !.pace_zones = pz,
                                      !.max_heart_rate = mx,
                                      !.rest_heart_rate = rs] :
        hz \in HrZoneChoices, pz \in PaceZoneChoices,
        mx \in {120, 185, 190, 220}, rs \in {30, 60, 100}}

HeartRateChoices == 25..225
\* Paces in tenths of a minute per kilometre.
PaceChoices == 20..105 \cup {Infinity}

\* Paces in tenths of a second: the whole seconds, half seconds, and one
\* below zero.
SecondsChoices ==
    {s * Scale : s \in (0 - 1)..(MaxPaceMinutes * 60 + 59)}
    \cup {s * Scale + 5 : s \in 0..59}

\* "M:SS"
MinutesSeconds(m, ss) ==
    Digits(m) \o <<":">> \o TwoDigits(ss)

\* The strings parse_pace is given: every "M:SS", and strings that are not
\* of that form.
PaceStringChoices ==
    {MinutesSeconds(m, ss) : m \in 0..MaxPaceMinutes, ss \in 0..59}
    \cup {<<"0", "5", ":", "3", "0">>, <<"5", ":", "3">>, <<"5", ":", "7", "5">>,
          <<" ", "5", ":", "3", "0", " ">>, <<"5", ":", "3", "0", ":", "0", "0">>,
          <<"5", "3", "0">>, <<>>, <<"-", "1", ":", "3", "0">>,
          <<"5", ":", "x", "0">>, <<":", "3", "0">>}

\* A helper is called, once; response holds the call and what it returned.
Called(result) ==
    /\ runs = 0
    /\ runs' = 1
    /\ response' = result
    /\ UNCHANGED <<athletes, activities, remoteAuth, nextTok, remoteActs, now,
                   req, persisted, issued, backlog, newest_first,
                   utc_offset, user_settings, settings_seq>>

\* One call of one helper of zone_calculator.py, with any of the inputs.
NextZones ==
    \/ /\ runs = 0
       /\ \E z \in ZoneArrayChoices, t \in {"hr", "pace", "power"},
             m \in ZoneModels \cup {"9_zone"} :
             Called([kind |-> "validate_zone_array", zones |-> z,
                     zone_type |-> t, zone_model |-> m,
                     result |-> validate_zone_array(z, t, m)])
    \/ /\ runs = 0
       /\ \E s \in ZoneSettingsChoices :
             Called([kind |-> "calculate_hr_zones", settings |-> s,
                     result |-> calculate_hr_zones(s)])
    \/ /\ runs = 0
       /\ \E b \in HeartRateChoices, s \in ZoneSettingsChoices :
             Called([kind |-> "get_hr_zone", heart_rate |-> b, settings |-> s,
                     result |-> get_hr_zone(b, s)])
    \/ /\ runs = 0
       /\ \E s \in ZoneSettingsChoices :
             Called([kind |-> "calculate_pace_zones", settings |-> s,
                     result |-> calculate_pace_zones(s)])
    \/ /\ runs = 0
       /\ \E p \in PaceChoices, s \in ZoneSettingsChoices :
             Called([kind |-> "get_pace_zone", pace |-> p, settings |-> s,
                     result |-> get_pace_zone(p, s)])
    \/ /\ runs = 0
       /\ \E p \in SecondsChoices :
             Called([kind |-> "format_then_parse", seconds_per_km |-> p,
                     formatted |-> format_pace(p),
                     result |-> parse_pace(format_pace(p))])
    \/ /\ runs = 0
       /\ \E t \in PaceStringChoices :
             Called([kind |-> "parse_then_format", pace_string |-> t,
                     parsed |-> parse_pace(t),
                     result |-> format_pace(parse_pace(t))])

SpecZones == InitSettings /\ [][NextZones]_vars

\* ------------------------------------------------------------ C26 .. C30
\* The last response is that of a call of the named helper.
ResultOf(kind) ==
    /\ runs = 1
    /\ response.kind = kind

StrictlyAscending(z) == \A i \in 1..(Len(z) - 1) : z[i] < z[i + 1]
StrictlyDescending(z) == \A i \in 1..(Len(z) - 1) : z[i] > z[i + 1]

\* The conditions under which an array is to be accepted.
Acceptable(zones, zone_type, zone_model) ==
    /\ zone_model \in {"3_zone", "5_zone", "7_zone"}
    /\ Len(zones) = (CASE zone_model = "3_zone" -> 3
                       [] zone_model = "5_zone" -> 5
                       [] zone_model = "7_zone" -> 7)
    /\ \A i \in 1..Len(zones) : zones[i] > 0
    /\ \/ /\ zone_type = "hr"
          /\ StrictlyAscending(zones)
          /\ \A i \in 1..Len(zones) : 0 <= zones[i] /\ zones[i] <= 1000
          /\ zones[Len(zones)] = 1000
       \/ /\ zone_type = "pace"
          /\ StrictlyDescending(zones)
          /\ \A i \in 1..Len(zones) : 25 <= zones[i] /\ zones[i] <= 100

\* C26: validate_zone_array accepts exactly the arrays of a recognized
\* model's length with positive values that are, for hr, strictly
\* ascending, within 0..100 and ending in 100 or, for pace, strictly
\* descending and within 2.5..10.0; a refusal carries a message.
C26_ValidationExact ==
    ResultOf("validate_zone_array") =>
        /\ response.result.is_valid <=>
              Acceptable(response.zones, response.zone_type, response.zone_model)
        /\ response.result.is_valid <=> response.result.error_message = ""

\* The 5-zone heart-rate defaults with the second threshold lowered onto
\* the first are refused for their order.
C26_Witness ==
    /\ ResultOf("validate_zone_array")
    /\ response.zones = <<600, 600, 800, 900, 1000>>
    /\ Acceptable(<<600, 700, 800, 900, 1000>>, "hr", "5_zone")
    /\ response.zone_type = "hr"
    /\ response.zone_model = "5_zone"
    /\ ~response.result.is_valid
    /\ response.result.error_message =
          "HR zones must be in strictly ascending order"

\* round(n / d) for n >= 0, a half going to the even neighbour.
Round(n, d) ==
    LET q == n \div d
        r == n % d
    IN IF 2 * r < d THEN q
       ELSE IF 2 * r > d THEN q + 1
       ELSE IF q % 2 = 0 THEN q ELSE q + 1

\* C27: calculate_hr_zones returns a pair per entry of hr_zones; zone i ends
\* at round(max_heart_rate * hr_zones[i] / 100), the first zone starts at
\* rest_heart_rate and every later zone where the one before ends.
C27_RoundedZoneBounds ==
    ResultOf("calculate_hr_zones") =>
        LET s == response.settings
            zones == response.result
        IN /\ Len(zones) = Len(s.hr_zones)
           /\ \A i \in 1..Len(zones) :
                 /\ zones[i][2] = Round(s.max_heart_rate * s.hr_zones[i], 1000)
                 /\ zones[i][1] = IF i = 1 THEN s.rest_heart_rate
                                  ELSE zones[i - 1][2]

\* hr_zones that pass validation for some model, and a maximum above rest.
ValidHrSettings(s) ==
    /\ \E m \in ZoneModels : validate_zone_array(s.hr_zones, "hr", m).is_valid
    /\ s.max_heart_rate > s.rest_heart_rate

\* C28: with valid settings get_hr_zone gives 0 below the resting heart
\* rate and otherwise a zone in 1..N: the first whose range, ends included,
\* holds the heart rate, and N when the heart rate is above the top zone;
\* one of the two is always the case.
C28_HrZoneTotal ==
    (ResultOf("get_hr_zone") /\ ValidHrSettings(response.settings)) =>
        LET s == response.settings
            bpm == response.heart_rate
            zones == calculate_hr_zones(s)
            N == Len(zones)
            holds == {i \in 1..N : zones[i][1] <= bpm /\ bpm <= zones[i][2]}
        IN IF bpm < s.rest_heart_rate
           THEN response.result = 0
           ELSE /\ response.result \in 1..N
                /\ holds # {} \/ bpm > zones[N][2]
                /\ holds # {} =>
                      /\ response.result \in holds
                      /\ \A j \in holds : response.result <= j
                /\ bpm > zones[N][2] => response.result = N

\* A heart rate on the boundary of the zones 2 and 3 is put in zone 2.
C28_Witness ==
    /\ ResultOf("get_hr_zone")
    /\ response.settings.hr_zones = <<600, 700, 800, 900, 1000>>
    /\ response.settings.max_heart_rate = 190
    /\ response.settings.rest_heart_rate = 60
    /\ response.heart_rate = 133
    /\ response.result = 2

ValidPaceSettings(s) ==
    \E m \in ZoneModels : validate_zone_array(s.pace_zones, "pace", m).is_valid

IsMinutesSeconds(s) ==
    /\ Len(s) >= 4
    /\ s[Len(s) - 2] = ":"
    /\ \A i \in 1..Len(s) : i # Len(s) - 2 => IsDigit(s[i])
    /\ DigitValue(s[Len(s) - 1]) <= 5
    /\ Len(s) > 4 => s[1] # "0"

\* C30: a pace of a whole number of seconds, zero or more, comes back from
\* parse_pace(format_pace(p)), and a string "M:SS" comes back from
\* format_pace(parse_pace(s)).
C30_PaceRoundTrip ==
    /\ (/\ ResultOf("format_then_parse")
        /\ response.seconds_per_km >= 0
        /\ response.seconds_per_km % Scale = 0) =>
          response.result = response.seconds_per_km
    /\ (ResultOf("parse_then_format") /\ IsMinutesSeconds(response.pace_string)) =>
          response.result = response.pace_string

\* "10:05" is parsed to 605 seconds and written back as "10:05".
C30_Witness ==
    /\ ResultOf("parse_then_format")
    /\ response.pace_string = <<"1", "0", ":", "0", "5">>
    /\ response.parsed = 605 * Scale
    /\ response.result = response.pace_string

\* ------------------------------------------------- splits and geometry
\* Activity.distance is a float of metres (the remote reports one decimal):
\* a distance is held in tenths of a metre (Scale), times in seconds, a pace
\* in hundredths of a minute per kilometre, and a quotient is the exact one.

\* round(pace, 2) of the quotient n / d minutes per kilometre.
round2(n, d) == Round(n * 100, d)

\* The whole-unit splits: range(num_splits), every one with the time of one
\* unit at uniform pace.  (split_time / 60) / (split_distance / 1000) is
\* moving_time * 1000 / (60 * distance) with the distance in metres, that
\* is moving_time * 500 / (3 * distance) with it in tenths.
full_splits(distance, moving_time, split_distance) ==
    LET num_splits == distance \div (split_distance * Scale)
    IN [i \in 1..num_splits |->
           [split    |-> i,
            distance |-> split_distance,
            time     |-> (moving_time * split_distance * Scale) \div distance,
            pace     |-> round2(moving_time * 500, 3 * distance)]]

\* The entry appended for remainder = distance % split_distance:
\* int(remainder) metres, int(remainder / distance * moving_time) seconds.
partial_split(distance, moving_time, split_distance) ==
    [split    |-> distance \div (split_distance * Scale) + 1,
     distance |-> (distance % (split_distance * Scale)) \div Scale,
     time     |-> ((distance % (split_distance * Scale)) * moving_time)
                     \div distance,
     pace     |-> round2(moving_time * 500, 3 * distance)]

calculate_splits(distance, moving_time, split_distance) ==
    IF distance = 0 \/ moving_time = 0
    THEN <<>>
    ELSE IF distance % (split_distance * Scale) > 0
    THEN Append(full_splits(distance, moving_time, split_distance),
                partial_split(distance, moving_time, split_distance))
    ELSE full_splits(distance, moving_time, split_distance)

\* Distances in tenths of a metre: 500.0, 999.5, 1000.0, 1000.5, 2500.0,
\* 5000.0, 5000.5, 5012.3, 5500.0 m, and none.
DistanceChoices ==
    {0, 5000, 9995, 10000, 10005, 25000, 50000, 50005, 50123, 55000}

MovingTimeChoices == {0, 1, 59, 300, 1500, 1650}

SplitDistanceChoices == {400, 1000}

\* decode_polyline reads a string of characters, held as the sequence of
\* their code points (ord), the index counted from 1.

\* The inner loop from polyline_str[index] on: b = ord(...) - 63,
\* result |= (b & 0x1f) << shift (the five bits lie above those already
\* set), until a b without the continuation bit 0x20.  Reading past the
\* end raises IndexError.
RECURSIVE read_value(_, _, _, _)
read_value(polyline_str, index, shift, result) ==
    IF index > Len(polyline_str)
    THEN [raised |-> "IndexError", index |-> index, result |-> result]
    ELSE LET b    == polyline_str[index] - 63
             bits == result + (b % 32) * (2 ^ shift)
         IN IF b < 32
            THEN [raised |-> "none", index |-> index + 1, result |-> bits]
            ELSE read_value(polyline_str, index + 1, shift + 5, bits)

\* Mutant of zigzag: the sign bit is dropped and the value taken as positive.
zigzagUnsigned(result) ==
    result \div 2

\* ~(result >> 1) if (result & 1) else (result >> 1)
zigzag(result) ==
    IF result % 2 = 1 THEN 0 - (result \div 2) - 1 ELSE result \div 2

\* lat / 1e5: the quotient, as numerator and denominator.
Degrees(n) == <<n, 100000>>

\* The outer loop, while index < len(polyline_str): a latitude delta, a
\* longitude delta, and the point appended.
RECURSIVE decode_from(_, _, _, _, _)
decode_from(polyline_str, index, lat, lng, coordinates) ==
    IF index > Len(polyline_str)
    THEN [raised |-> "none", index |-> index, coordinates |-> coordinates]
    ELSE LET dlat == read_value(polyline_str, index, 0, 0)
             dlng == read_value(polyline_str, dlat.index, 0, 0)
             lat2 == lat + zigzag(dlat.result)
             lng2 == lng + zigzag(dlng.result)
         IN IF dlat.raised # "none" \/ dlng.raised # "none"
            THEN [raised |-> "IndexError", index |-> dlng.index,
                  coordinates |-> coordinates]
            ELSE decode_from(polyline_str, dlng.index, lat2, lng2,
                             Append(coordinates,
                                    <<Degrees(lat2), Degrees(lng2)>>))

\* The result with the index at which the loop ended (bookkeeping).
decode_polyline(polyline_str) ==
    IF polyline_str = <<>>
    THEN [raised |-> "none", index |-> 1, coordinates |-> <<>>]
    ELSE decode_from(polyline_str, 1, 0, 0, <<>>)

\* The encoder of the format, for the inputs: a value doubled, with every
\* bit flipped when negative, in five-bit chunks from the low end, each but
\* the last with the continuation bit, each plus 63.
RECURSIVE Chunks(_)
Chunks(v) ==
    IF v >= 32 THEN <<(32 + (v % 32)) + 63>> \o Chunks(v \div 32)
    ELSE <<v + 63>>

EncodeValue(d) == Chunks(IF d < 0 THEN 0 - 2 * d - 1 ELSE 2 * d)

RECURSIVE EncodeDeltas(_)
EncodeDeltas(deltas) ==
    IF deltas = <<>> THEN <<>>
    ELSE EncodeValue(Head(deltas)[1]) \o EncodeValue(Head(deltas)[2])
            \o EncodeDeltas(Tail(deltas))

MaxPoints == 2

\* Steps of a path in units of 1e-5 degrees: none, one either way, and
\* jumps of 38.5 and -120.2 degrees.
DeltaChoices == {0, 0 - 1, 16, 3850000, 0 - 12020000}

DeltaSeqs ==
    UNION {[1..n -> DeltaChoices \X DeltaChoices] : n \in 0..MaxPoints}

\* Every path's string, and every one-point string short of its last
\* character; encoded_from holds the path of a well-formed string.
PolylineChoices ==
    {[polyline_str |-> EncodeDeltas(ds), encoded_from |-> {ds}] :
        ds \in DeltaSeqs}
    \cup
    {[polyline_str |-> SubSeq(EncodeDeltas(ds), 1, Len(EncodeDeltas(ds)) - 1),
      encoded_from |-> {}] :
        ds \in [1..1 -> DeltaChoices \X DeltaChoices]}

\* The remote client's reading of an HTTP response [status_code, text].
\* A call returns a value or raises HTTPException(status_code, detail); the
\* detail is held as the pieces of its f-string.
Returns(value) ==
    [raised |-> 0, detail |-> <<>>, value |-> {value}]

HTTPException(status_code, detail) ==
    [raised |-> status_code, detail |-> detail, value |-> {}]

\* response.json(): the parsed body.
json(http) == [parsed |-> http.text]

\* The literal {} of get_activity_streams.
EmptyDict == [parsed |-> "{}"]

\* get_athlete_activities, from the response on.
list_response(http) ==
    IF http.status_code = 401
    THEN HTTPException(401, <<"Access token expired or invalid">>)
    ELSE IF http.status_code = 429
    THEN HTTPException(429, <<"Rate limit exceeded">>)
    ELSE IF http.status_code # 200
    THEN HTTPException(http.status_code, <<"Strava API error: ", http.text>>)
    ELSE Returns(json(http))

\* get_activity_detail, from the response on; activity_id in decimal.
detail_response(http, activity_id) ==
    IF http.status_code = 401
    THEN HTTPException(401, <<"Access token expired or invalid">>)
    ELSE IF http.status_code = 404
    THEN HTTPException(404, <<"Activity ", activity_id, " not found">>)
    ELSE IF http.status_code = 429
    THEN HTTPException(429, <<"Rate limit exceeded">>)
    ELSE IF http.status_code # 200
    THEN HTTPException(http.status_code, <<"Strava API error: ", http.text>>)
    ELSE Returns(json(http))

\* Mutant of streams_response: a missing stream is an error like any other.
streams_responseStrict(http) ==
    list_response(http)

\* get_activity_streams, from the response on.
streams_response(http) ==
    IF http.status_code = 401
    THEN HTTPException(401, <<"Access token expired or invalid">>)
    ELSE IF http.status_code = 404
    THEN Returns(EmptyDict)
    ELSE IF http.status_code = 429
    THEN HTTPException(429, <<"Rate limit exceeded">>)
    ELSE IF http.status_code # 200
    THEN HTTPException(http.status_code, <<"Strava API error: ", http.text>>)
    ELSE Returns(json(http))

StatusChoices ==
    {200, 201, 204, 301, 304, 400, 401, 403, 404, 422, 429, 500, 502, 503}

BodyChoices == {"{}", "[]", "{\"message\": \"Record Not Found\"}", ""}

HttpResponses == [status_code : StatusChoices, text : BodyChoices]

ActivityIdStrings == {"101", "102"}

\* One call of one helper, with any of the inputs.
NextHelpers ==
    \/ /\ runs = 0
       /\ \E d \in DistanceChoices, t \in MovingTimeChoices,
             s \in SplitDistanceChoices :
             Called([kind |-> "calculate_splits", distance |-> d,
                     moving_time |-> t, split_distance |-> s,
                     result |-> calculate_splits(d, t, s)])
    \/ /\ runs = 0
       /\ \E p \in PolylineChoices :
             Called([kind |-> "decode_polyline",
                     polyline_str |-> p.polyline_str,
                     encoded_from |-> p.encoded_from,
                     result |-> decode_polyline(p.polyline_str)])
    \/ /\ runs = 0
       /\ \E http \in HttpResponses :
             Called([kind |-> "get_athlete_activities", http |-> http,
                     result |-> list_response(http)])
    \/ /\ runs = 0
       /\ \E http \in HttpResponses, id \in ActivityIdStrings :
             Called([kind |-> "get_activity_detail", http |-> http,
                     activity_id |-> id,
                     result |-> detail_response(http, id)])
    \/ /\ runs = 0
       /\ \E http \in HttpResponses :
             Called([kind |-> "get_activity_streams", http |-> http,
                     result |-> streams_response(http)])

SpecHelpers == InitSettings /\ [][NextHelpers]_vars

\* ------------------------------------------------------------ C31 .. C33
\* C31: calculate_splits returns no split when the distance or the moving
\* time is zero; otherwise floor(distance / split_distance) full splits,
\* numbered from 1, each of split_distance metres and of the same time and
\* pace, followed by one partial split of (distance mod split_distance)
\* metres exactly when that remainder is not zero; (5000, 1500) gives five
\* splits of 300 s at 5.00 and (5500, 1650) the same five and one of 500 m.
C31_SplitsStructure ==
    ResultOf("calculate_splits") =>
        LET d    == response.distance
            t    == response.moving_time
            s    == response.split_distance
            r    == response.result
            n    == d \div (s * Scale)
            rest == d % (s * Scale)
        IN /\ (d = 0 \/ t = 0) => r = <<>>
           /\ (d # 0 /\ t # 0) =>
                 /\ Len(r) = n + (IF rest # 0 THEN 1 ELSE 0)
                 /\ \A i \in 1..n :
                       /\ r[i].split = i
                       /\ r[i].distance = s
                       /\ r[i].time = r[1].time
                       /\ r[i].pace = r[1].pace
                 /\ rest # 0 =>
                       /\ r[n + 1].split = n + 1
                       /\ r[n + 1].distance * Scale = rest
           /\ (d = 50000 /\ t = 1500 /\ s = 1000) =>
                 /\ Len(r) = 5
                 /\ \A i \in 1..5 : r[i].time = 300 /\ r[i].pace = 500
           /\ (d = 55000 /\ t = 1650 /\ s = 1000) =>
                 /\ Len(r) = 6
                 /\ \A i \in 1..5 : r[i].time = 300 /\ r[i].pace = 500
                 /\ r[6].distance = 500

\* The running sums of the first k deltas of a path, in 1e-5 degrees.
RECURSIVE SumLat(_, _)
SumLat(deltas, k) == IF k = 0 THEN 0 ELSE SumLat(deltas, k - 1) + deltas[k][1]

RECURSIVE SumLng(_, _)
SumLng(deltas, k) == IF k = 0 THEN 0 ELSE SumLng(deltas, k - 1) + deltas[k][2]

\* C32: decode_polyline returns the empty list for the empty string; for a
\* well-formed string that encodes n coordinate pairs it ends without an
\* error having consumed every character, and returns n points, the k-th
\* being the sums of the first k latitude and longitude deltas, each
\* divided by 1e5; the result is a function of the input alone.
C32_PolylineDecoded ==
    ResultOf("decode_polyline") =>
        /\ response.result = decode_polyline(response.polyline_str)
        /\ response.polyline_str = <<>> =>
              response.result.coordinates = <<>>
        /\ \A deltas \in response.encoded_from :
              /\ response.result.raised = "none"
              /\ response.result.index = Len(response.polyline_str) + 1
              /\ Len(response.result.coordinates) = Len(deltas)
              /\ \A k \in 1..Len(deltas) :
                    response.result.coordinates[k] =
                       <<<<SumLat(deltas, k), 100000>>,
                         <<SumLng(deltas, k), 100000>>>>

\* A string of two points, the second south-west of the first, is decoded.
C32_Witness ==
    /\ ResultOf("decode_polyline")
    /\ \E deltas \in response.encoded_from :
          /\ Len(deltas) = 2
          /\ deltas[1][1] > 0
          /\ deltas[2][1] < 0
          /\ deltas[2][2] < 0
    /\ Len(response.result.coordinates) = 2

RemoteCalls ==
    {"get_athlete_activities", "get_activity_detail", "get_activity_streams"}

\* C33: every call of the remote client reads the response status alike:
\* 200 returns the payload; 401 raises the expired-token error; 429 raises
\* the rate-limit error; 404 returns an empty result from
\* get_activity_streams and raises not-found from the other calls; any
\* other status outside 2xx raises an error with that status and the body.
C33_StatusMapping ==
    \A call \in RemoteCalls :
        ResultOf(call) =>
            LET code   == response.http.status_code
                result == response.result
            IN /\ code = 200 => result = Returns(json(response.http))
               /\ code = 401 =>
                     result = HTTPException(
                                 401, <<"Access token expired or invalid">>)
               /\ code = 429 =>
                     result = HTTPException(429, <<"Rate limit exceeded">>)
               /\ code = 404 =>
                     IF call = "get_activity_streams"
                     THEN result = Returns(EmptyDict)
                     ELSE result.raised = 404 /\ result.value = {}
               /\ (code \notin 200..299 /\ code \notin {401, 404, 429}) =>
                     /\ result.raised = code
                     /\ result.value = {}
                     /\ result.detail[Len(result.detail)] = response.http.text

\* get_activity_streams has been answered 404 with a body.
C33_Witness ==
    /\ ResultOf("get_activity_streams")
    /\ response.http.status_code = 404
    /\ response.http.text # ""
    /\ response.result.raised = 0

\* ------------------------------------------------------- C34, C38, C39
\* The record the update handler of the step has loaded.
LoadedSettings == FindSettings(user_settings, response'.athlete_id)

\* C34: a successful update_settings leaves the record's id, athlete_id and
\* created_at as they were, whatever keys the body has.
C34_IdentityKept ==
    [][(SettingsStep("update") /\ response'.status = 200) =>
          /\ response'.settings.id = LoadedSettings.id
          /\ response'.settings.athlete_id = LoadedSettings.athlete_id
          /\ response'.settings.created_at = LoadedSettings.created_at]_vars

HeartRatesInRange(s) ==
    /\ 120 <= s.max_heart_rate /\ s.max_heart_rate <= 220
    /\ 30 <= s.rest_heart_rate /\ s.rest_heart_rate <= 100
    /\ s.max_heart_rate > s.rest_heart_rate

\* C38: whatever settings operations have succeeded, updates that give only
\* one of the two heart rates among them, every stored record has
\* max_heart_rate within 120..220, rest_heart_rate within 30..100 and
\* max_heart_rate above rest_heart_rate.
C38_HeartRatesInRange ==
    \A i \in 1..Len(user_settings) : HeartRatesInRange(user_settings[i])

\* An update that gave rest_heart_rate alone has succeeded on a record whose
\* max_heart_rate an earlier update had set.
C38_Witness ==
    /\ response.kind = "settings"
    /\ response.op = "update"
    /\ response.status = 200
    /\ response.updates.rest_heart_rate # {}
    /\ response.updates.max_heart_rate = {}
    /\ response.settings.max_heart_rate # 190
    /\ response.settings \in {user_settings[i] : i \in 1..Len(user_settings)}

\* The body of an update is one to reject for the record it meets.
ToReject(settings, updates) ==
    LET zone_model == Given(updates, "zone_model_type", settings.zone_model_type)
        max_hr == Given(updates, "max_heart_rate", settings.max_heart_rate)
        rest_hr == Given(updates, "rest_heart_rate", settings.rest_heart_rate)
    IN \/ updates.zone_model_type # {} /\ zone_model \notin ZoneModels
       \/ \E z \in updates.hr_zones : ~Acceptable(z, "hr", zone_model)
       \/ \E z \in updates.pace_zones : ~Acceptable(z, "pace", zone_model)
       \/ max_hr <= rest_hr
       \/ max_hr \notin 120..220
       \/ rest_hr \notin 30..100
       \/ \E d \in updates.calendar_start_day : d \notin {"monday", "sunday"}
       \/ \E u \in updates.distance_unit : u \notin {"km", "miles"}
       \/ \E u \in updates.temperature_unit : u \notin {"celsius", "fahrenheit"}

\* C39: an update_settings that is to be rejected (no settings record, an
\* unknown zone model, an invalid hr or pace array, heart rates out of
\* range, an invalid display preference) is answered with the error, and
\* an update answered with such an error leaves the stored settings as they
\* were.
C39_RejectedUpdateChangesNothing ==
    [][SettingsStep("update") =>
          /\ LoadedSettings = NoRow => response'.status = 404
          /\ (LoadedSettings # NoRow
                /\ ToReject(LoadedSettings, response'.updates))
                => response'.status = 400
          /\ response'.status \in {400, 404} =>
                /\ user_settings' = user_settings
                /\ settings_seq' = settings_seq]_vars

\* A body with a bad display preference has been rejected while a record
\* of the athlete is stored.
C39_Witness ==
    /\ response.kind = "settings"
    /\ response.op = "update"
    /\ response.status = 400
    /\ response.updates.distance_unit = {"yards"}
    /\ FindSettings(user_settings, response.athlete_id) # NoRow

\* ------------------------------------------------------------ C35 .. C37
\* The step is the end of handler h, with a response.
EndsNow(h) ==
    /\ CopiesIn(h, req') < CopiesIn(h, req)
    /\ BagCardinality(req') < BagCardinality(req)

\* C35: the refreshed tokens are committed apart from the activity batch:
\* when a sync that has refreshed the token fails at its list request or at
\* the commit of its batch, the athlete's stored credentials are the triple
\* the refresh returned, which is the one the remote holds; the refresh
\* token that was used up is not what is stored.
C35_RefreshSurvivesFailure ==
    [][\A h \in InFlight :
          (/\ h.kind = "sync"
           /\ h.refresh_result = "granted"
           /\ h.pc \in {"fetch", "commit"}
           /\ EndsNow(h)
           /\ response'.status # 200)
          => /\ athletes'[h.athlete_id] = h.athlete
             /\ h.athlete \in issued
             /\ athletes'[h.athlete_id] = remoteAuth'[h.athlete_id]
             /\ athletes'[h.athlete_id].refresh_token # h.athlete_id]_vars

\* A sync that was granted new tokens has failed at the commit of its
\* batch after a list request that went well.
C35_Witness ==
    /\ response.kind = "sync"
    /\ response.refresh_result = "granted"
    /\ response.fetch_result = "ok"
    /\ response.status = 500
    /\ athletes[1] = remoteAuth[1]
    /\ athletes[1].refresh_token # 1

\* The step is the successful return of a sync.
SyncReturns ==
    /\ BagCardinality(req') < BagCardinality(req)
    /\ response'.kind = "sync"
    /\ response'.status = 200

\* C36: of a sync that succeeds, activities_synced, activities_updated and
\* the items skipped for a failure of their own add up to the items
\* fetched, total is activities_synced + activities_updated, and the call
\* leaves activities_synced more activities stored than there were: its
\* commit adds that many rows, and nothing else writes the table.
C36_SyncCounts ==
    [][/\ SyncReturns =>
             /\ response'.new_count + response'.updated_count
                   + response'.skipped = response'.fetched
             /\ response'.total
                   = response'.new_count + response'.updated_count
             /\ Len(activities') = Len(activities) + response'.new_count
       /\ activities' # activities => SyncReturns]_vars

\* A sync has succeeded that created an activity and skipped an item.
C36_Witness ==
    /\ response.kind = "sync"
    /\ response.status = 200
    /\ response.new_count >= 1
    /\ response.skipped >= 1
    /\ response.fetched >= 2
    /\ Len(activities) >= 1

\* C37: a sync that succeeds has created or updated no activity whose start
\* is at or before the latest start stored for its account when it began
\* (runs are serial: the table is as the sync found it until its commit);
\* the statement concludes from this that an activity older than a stored
\* one is not created by a later sync.
C37_NothingAtOrBeforeLatest ==
    [][\A h \in InFlight :
          (h.kind = "sync" /\ EndsNow(h) /\ response'.status = 200)
          => \A k \in 1..Len(h.pending) :
                \A o \in OwnStarts(h.athlete_id) :
                   h.pending[k].row.start_date > o]_vars

====
